---- MODULE Spec2Model ----
(***************************************************************************)
(* Model of the policy-pluggable cache engine: TemplateCacheManager        *)
(* (cache_performance_test.cpp, second translation unit, lines 555-1033)   *)
(* and the six replacement policies of policy_traits.h (lines 500-1208).   *)
(*                                                                         *)
(* Every public operation runs under the single cache mutex, so each one   *)
(* is one atomic action.  The operations are written as operators from a   *)
(* manager state (a record of the member variables) to the state after     *)
(* the call plus the call's return value; the actions apply them.          *)
(*                                                                         *)
(* SharedSpec runs the calls of several threads on one cache, with the     *)
(* taking of the mutex as a step of its own.  ServerSpec is the request     *)
(* loop of the page server (pageserver.cpp, PageServer::run).               *)
(***************************************************************************)
EXTENDS Integers, Sequences, FiniteSets, TLC

\* ------------------------------------------------------------------ bounds
\* Keys and values the callers pass, the constructor's cache_size, the largest
\* argument of resize(), and the number of calls made on one cache.
NumKeys == 3
NumValues == 2
Capacity == 2
MaxCacheSize == 3
MaxOps == 5
MaxCount == 1
MaxSetup == 2
\* The largest limit handed to get_dirty.
MaxLimit == 3
\* The capacity and the keys of the caches that CLOCK and SIEVE are run on.
RingCapacity == 3
RingKeys == 1..(NumKeys + 1)
\* The threads that share one cache.
NumThreads == 2
Threads == 1..NumThreads
\* The page server: the widths of page_request's offset (uint64_t) and length
\* (uint32_t) scaled down, the size of the backing file in bytes, the
\* connections it accepts and the requests it reads.
OffsetBits == 3
LengthBits == 2
FileSize == 4
MaxConns == 2
MaxRequests == 2

Keys == 1..NumKeys
Values == 1..NumValues
Policies == {"LRU", "LFU", "FIFO", "CLOCK", "SIEVE", "ARC"}

\* Key{} and Value{}: the value-initialised key and value of an unused slot.
NoKey == 0
NoValue == 0
\* The list sentinel of the intrusive lists.
Nil == 0 - 1

\* policy: the PolicyTemplate argument; the next nine: the member variables
\* (entries_size is entries_.size(), fixed by the constructor; slots of entries
\* at or past it are memory behind the slab); crashed: the process is gone or
\* a call never returned; calls: public calls made so far.
VARIABLES policy, cache_map, entries, entries_size, free_indices, policy_data,
          cache_size, used_entries, hits, misses, evictions, crashed, calls,
          mutex, pc, arg, got,
          client_fd, accepted, served, req, resp, file

\* mutex: the thread that holds mutex_ (0: nobody).  pc[t]: where thread t is:
\* "idle" outside every call, "locked" inside a call behind its lock_guard,
\* "resizing" inside resize() behind its lock_guard and before the store to
\* cache_size_.  arg[t]: the new_cache_size of the resize() thread t is in.
\* got: what the get_cache_size() call of the last step returned (Nil: the
\* last step was no such call).
threadvars == <<mutex, pc, arg, got>>

\* The page server (pageserver.cpp).  client_fd: the connection PageServer::run
\* is serving (0: none, it is in accept()).  accepted: the connections accepted
\* so far, served: the requests read so far.  req: the struct page_request of
\* the inner loop (<<>> outside the loop and before the first receive, else
\* <<r>>).  resp: the response that went out last (<<>>: none, or the send
\* failed).  file: the
\* bytes of the backing file.
servervars == <<client_fd, accepted, served, req, resp, file>>

vars == <<policy, cache_map, entries, entries_size, free_indices, policy_data,
          cache_size, used_entries, hits, misses, evictions, crashed, calls,
          mutex, pc, arg, got,
         client_fd, accepted, served, req, resp, file>>

\* ------------------------------------------------------------ map helpers
\* std::unordered_map as a function whose DOMAIN is the set of present keys.
EmptyMap == <<>>
MapHas(map, k) == k \in DOMAIN map
MapPut(map, k, v) == [x \in (DOMAIN map) \cup {k} |-> IF x = k THEN v ELSE map[x]]
MapErase(map, k) == [x \in (DOMAIN map) \ {k} |-> map[x]]
\* operator[] used as an rvalue: a missing key is inserted value-initialised (0).
MapTouch(map, k) == [x \in (DOMAIN map) \cup {k} |-> IF x \in DOMAIN map THEN map[x] ELSE 0]

\* ---------------------------------------------------------------- entries
\* CacheEntry() / CacheEntry(k, v, idx) with each policy's Entry fields.
BaseDefault == [key |-> NoKey, value |-> NoValue, dirty |-> FALSE, valid |-> FALSE,
                index |-> 0, pin_count |-> 0]
BaseEntry(k, v, idx) == [key |-> k, value |-> v, dirty |-> FALSE, valid |-> TRUE,
                         index |-> idx, pin_count |-> 0]

PolicyFields(pol, constructed) ==
    CASE pol \in {"LRU", "FIFO"} -> [prev |-> Nil, next |-> Nil]
      [] pol = "LFU" -> [access_count |-> IF constructed THEN 1 ELSE 0,
                         next_in_bucket |-> Nil, prev_in_bucket |-> Nil]
      [] pol = "CLOCK" -> [next |-> Nil, prev |-> Nil, reference_bit |-> constructed]
      [] pol = "SIEVE" -> [next |-> Nil, prev |-> Nil, visited |-> constructed]
      [] pol = "ARC" -> [prev |-> Nil, next |-> Nil, in_t1 |-> TRUE]

DefaultEntry(pol) == BaseDefault @@ PolicyFields(pol, FALSE)
Entry(pol, k, v, idx) == BaseEntry(k, v, idx) @@ PolicyFields(pol, TRUE)

\* ManagerData() of each policy.
ManagerData(pol) ==
    CASE pol \in {"LRU", "FIFO"} -> [head |-> Nil, tail |-> Nil]
      [] pol = "LFU" -> [bucket_heads |-> EmptyMap, bucket_tails |-> EmptyMap, min_count |-> 1]
      [] pol \in {"CLOCK", "SIEVE"} -> [hand |-> Nil, tail |-> Nil]
      [] pol = "ARC" -> [t1_head |-> Nil, t1_tail |-> Nil, t2_head |-> Nil, t2_tail |-> Nil,
                         b1_ghost |-> {}, b2_ghost |-> {}, p |-> 0, capacity |-> 0]

\* The pair a policy hook works on and leaves behind: its ManagerData and the slab.
PD(m, es) == [m |-> m, entries |-> es]

\* ------------------------------------------- statements on a linked list
\* The hooks are compositions of their statements, each a map from the pair p
\* to the pair after the statement; i is the slot of the hook's entry e, and
\* hd / tl name the ManagerData fields that hold the list's head and tail.

\* if (e.prev != -1) entries[e.prev].next = e.next;
unlink_prev(p, i) ==
    IF p.entries[i].prev # Nil
    THEN [p EXCEPT !.entries[p.entries[i].prev].next = p.entries[i].next] ELSE p

\* if (e.next != -1) entries[e.next].prev = e.prev;
unlink_next(p, i) ==
    IF p.entries[i].next # Nil
    THEN [p EXCEPT !.entries[p.entries[i].next].prev = p.entries[i].prev] ELSE p

\* if (head == (int)e.index) head = e.next;
head_to_next(p, hd, i) ==
    IF p.m[hd] = p.entries[i].index THEN [p EXCEPT !.m[hd] = p.entries[i].next] ELSE p

\* A removal that leaves the tail where it was.
tail_kept(p, tl, i) == p

\* if (tail == (int)e.index) tail = e.prev;
tail_to_prev(p, tl, i) ==
    IF p.m[tl] = p.entries[i].index THEN [p EXCEPT !.m[tl] = p.entries[i].prev] ELSE p

\* e.prev = e.next = -1;
clear_links(p, i) == [p EXCEPT !.entries[i].prev = Nil, !.entries[i].next = Nil]

\* e.prev = -1; e.next = head;
front_links(p, hd, i) == [p EXCEPT !.entries[i].prev = Nil, !.entries[i].next = p.m[hd]]

\* if (head != -1) entries[head].prev = e.index;
head_prev(p, hd, i) ==
    IF p.m[hd] # Nil THEN [p EXCEPT !.entries[p.m[hd]].prev = p.entries[i].index] ELSE p

\* head = e.index; if (tail == -1) tail = e.index;
new_head(p, hd, tl, i) ==
    [p EXCEPT !.m[hd] = p.entries[i].index,
              !.m[tl] = IF @ = Nil THEN p.entries[i].index ELSE @]

\* e.prev = tail; e.next = -1;
back_links(p, tl, i) == [p EXCEPT !.entries[i].prev = p.m[tl], !.entries[i].next = Nil]

\* if (tail != -1) entries[tail].next = e.index;
tail_next(p, tl, i) ==
    IF p.m[tl] # Nil THEN [p EXCEPT !.entries[p.m[tl]].next = p.entries[i].index] ELSE p

\* tail = e.index; if (head == -1) head = e.index;
new_tail(p, hd, tl, i) ==
    [p EXCEPT !.m[tl] = p.entries[i].index,
              !.m[hd] = IF @ = Nil THEN p.entries[i].index ELSE @]

\* ==================================================================== LRU
LRU_on_access(m, es, i) ==
    IF m.head = es[i].index THEN PD(m, es)
    ELSE new_head(head_prev(front_links(
             tail_to_prev(unlink_next(unlink_prev(PD(m, es), i), i), "tail", i),
             "head", i), "head", i), "head", "tail", i)

LRU_on_insert(m, es, i) ==
    new_head(head_prev(front_links(PD(m, es), "head", i), "head", i), "head", "tail", i)

LRU_on_remove(m, es, i) ==
    clear_links(tail_to_prev(head_to_next(unlink_next(unlink_prev(PD(m, es), i), i),
                                          "head", i), "tail", i), i)

\* can_evict without the pin test.
can_evict_ignores_pin(e) == e.valid /\ ~e.dirty

\* bool can_evict(entry): the eligibility predicate the manager hands to the policy.
can_evict(e) == e.valid /\ e.pin_count = 0 /\ ~e.dirty

\* Results of a victim search that does not return: the walk never reaches its
\* exit condition (Hang) or indexes the slab with -1 (BadIndex).
Hang == 0 - 2
BadIndex == 0 - 3
\* More steps than any walk over a well-formed list of the slab can take.
Fuel == 2 * (Capacity + MaxCacheSize) + 2

\* The walk below with a predicate that lets pinned entries through.
RECURSIVE WalkList_takes_pinned(_, _, _, _)
WalkList_takes_pinned(es, idx, link, fuel) ==
    IF idx = Nil THEN Nil
    ELSE IF fuel = 0 THEN Hang
    ELSE IF can_evict_ignores_pin(es[idx]) THEN idx
    ELSE WalkList_takes_pinned(es, es[idx][link], link, fuel - 1)

\* while (idx != -1) { if (can_evict(entries[idx])) return idx; idx = entries[idx].<link>; }
RECURSIVE WalkList(_, _, _, _)
WalkList(es, idx, link, fuel) ==
    IF idx = Nil THEN Nil
    ELSE IF fuel = 0 THEN Hang
    ELSE IF can_evict(es[idx]) THEN idx
    ELSE WalkList(es, es[idx][link], link, fuel - 1)

\* What get_eviction_candidate leaves behind, with the slot it returns (Nil: nullptr).
Cand(m, es, v) == [m |-> m, entries |-> es, victim |-> v]

\* A victim search that takes the tail whatever the predicate says.
LRU_candidate_unchecked(m, es) == Cand(m, es, m.tail)

LRU_get_eviction_candidate(m, es) == Cand(m, es, WalkList(es, m.tail, "prev", Fuel))

\* =================================================================== FIFO
FIFO_on_access(m, es, i) == PD(m, es)

FIFO_on_insert(m, es, i) ==
    new_tail(tail_next(back_links(PD(m, es), "tail", i), "tail", i), "head", "tail", i)

FIFO_on_remove(m, es, i) ==
    clear_links(tail_to_prev(head_to_next(unlink_next(unlink_prev(PD(m, es), i), i),
                                          "head", i), "tail", i), i)

\* A victim search that walks from the tail: the newest entry goes first.
FIFO_candidate_from_tail(m, es) == Cand(m, es, WalkList(es, m.tail, "prev", Fuel))

FIFO_get_eviction_candidate(m, es) == Cand(m, es, WalkList(es, m.head, "next", Fuel))

\* ==================================================================== LFU
\* Every m.bucket_heads[c] / m.bucket_tails[c] below that the source writes
\* without a count() test is std::unordered_map::operator[], which inserts
\* the key with value 0 when it is missing.

\* if (e.prev_in_bucket != -1) entries[e.prev_in_bucket].next_in_bucket = e.next_in_bucket;
LFU_unlink_prev(p, i) ==
    IF p.entries[i].prev_in_bucket # Nil
    THEN [p EXCEPT !.entries[p.entries[i].prev_in_bucket].next_in_bucket =
                       p.entries[i].next_in_bucket]
    ELSE p

\* if (e.next_in_bucket != -1) entries[e.next_in_bucket].prev_in_bucket = e.prev_in_bucket;
LFU_unlink_next(p, i) ==
    IF p.entries[i].next_in_bucket # Nil
    THEN [p EXCEPT !.entries[p.entries[i].next_in_bucket].prev_in_bucket =
                       p.entries[i].prev_in_bucket]
    ELSE p

\* The read m.bucket_heads[c] of the next statement.
LFU_touch_heads(p, c) == [p EXCEPT !.m.bucket_heads = MapTouch(@, c)]

\* if (m.bucket_heads[c] == (int)e.index) m.bucket_heads[c] = e.next_in_bucket;
LFU_head_to_next(p, i, c) ==
    IF p.m.bucket_heads[c] = p.entries[i].index
    THEN [p EXCEPT !.m.bucket_heads[c] = p.entries[i].next_in_bucket] ELSE p

\* The read m.bucket_tails[c] of the next statement.
LFU_touch_tails(p, c) == [p EXCEPT !.m.bucket_tails = MapTouch(@, c)]

\* if (m.bucket_tails[c] == (int)e.index) m.bucket_tails[c] = e.prev_in_bucket;
LFU_tail_to_prev(p, i, c) ==
    IF p.m.bucket_tails[c] = p.entries[i].index
    THEN [p EXCEPT !.m.bucket_tails[c] = p.entries[i].prev_in_bucket] ELSE p

\* if (m.bucket_heads[c] == -1) { erase c from both maps; if (m.min_count == c) m.min_count++; }
LFU_drop_empty(p, c) ==
    IF p.m.bucket_heads[c] = Nil
    THEN [p EXCEPT !.m.bucket_heads = MapErase(@, c),
                   !.m.bucket_tails = MapErase(@, c),
                   !.m.min_count = IF @ = c THEN @ + 1 ELSE @]
    ELSE p

\* The unlink from bucket c that on_access and on_remove both start with.
LFU_unlink(p, i, c) ==
    LFU_drop_empty(
        LFU_tail_to_prev(LFU_touch_tails(
            LFU_head_to_next(LFU_touch_heads(
                LFU_unlink_next(LFU_unlink_prev(p, i), i), c), i, c), c), i, c), c)

\* e.prev_in_bucket = m.bucket_tails.count(c) ? m.bucket_tails[c] : -1; e.next_in_bucket = -1;
\* with c the entry's access_count.
LFU_back_links(p, i) ==
    [p EXCEPT !.entries[i].prev_in_bucket =
                  IF MapHas(p.m.bucket_tails, p.entries[i].access_count)
                  THEN p.m.bucket_tails[p.entries[i].access_count] ELSE Nil,
              !.entries[i].next_in_bucket = Nil]

\* if (e.prev_in_bucket != -1) entries[e.prev_in_bucket].next_in_bucket = e.index;
LFU_tail_next(p, i) ==
    IF p.entries[i].prev_in_bucket # Nil
    THEN [p EXCEPT !.entries[p.entries[i].prev_in_bucket].next_in_bucket = p.entries[i].index]
    ELSE p

\* m.bucket_tails[c] = e.index; if (!m.bucket_heads.count(c)) m.bucket_heads[c] = e.index;
LFU_new_tail(p, i) ==
    [p EXCEPT !.m.bucket_tails = MapPut(@, p.entries[i].access_count, p.entries[i].index),
              !.m.bucket_heads = IF MapHas(@, p.entries[i].access_count) THEN @
                                 ELSE MapPut(@, p.entries[i].access_count, p.entries[i].index)]

\* The append to the tail of the entry's bucket that on_access and on_insert both end with.
LFU_link_tail(p, i) == LFU_new_tail(LFU_tail_next(LFU_back_links(p, i), i), i)

\* e.access_count++;
LFU_count_up(p, i) == [p EXCEPT !.entries[i].access_count = @ + 1]

\* if (m.min_count > e.access_count || m.bucket_heads.empty()) m.min_count = e.access_count;
LFU_lower_min(p, i) ==
    IF p.m.min_count > p.entries[i].access_count \/ DOMAIN p.m.bucket_heads = {}
    THEN [p EXCEPT !.m.min_count = p.entries[i].access_count] ELSE p

LFU_on_access(m, es, i) ==
    LFU_lower_min(LFU_link_tail(LFU_count_up(
        LFU_unlink(PD(m, es), i, es[i].access_count), i), i), i)

\* e.access_count = 1; ...; m.min_count = 1;
LFU_on_insert(m, es, i) ==
    [LFU_link_tail(PD(m, [es EXCEPT ![i].access_count = 1]), i) EXCEPT !.m.min_count = 1]

LFU_on_remove(m, es, i) ==
    [LFU_unlink(PD(m, es), i, es[i].access_count)
        EXCEPT !.entries[i].prev_in_bucket = Nil, !.entries[i].next_in_bucket = Nil]

\* int idx = m.bucket_heads[m.min_count]; while (idx != -1) ...
LFU_walk_min_bucket(m, es) ==
    Cand(m, es, WalkList(es, m.bucket_heads[m.min_count], "next_in_bucket", Fuel))

LFU_get_eviction_candidate(m, es) ==
    IF DOMAIN m.bucket_heads = {} THEN Cand(m, es, Nil)
    ELSE LFU_walk_min_bucket([m EXCEPT !.bucket_heads = MapTouch(@, m.min_count)], es)

\* ========================================================== CLOCK and SIEVE
\* CLOCK and SIEVE have the same four hooks, statement for statement; only the
\* name of the per-entry bit differs (reference_bit, visited).

\* entries[m.tail].next = e.index;
Ring_tail_next(p, i) == [p EXCEPT !.entries[p.m.tail].next = p.entries[i].index]

\* e.prev = m.tail; e.next = m.hand;
Ring_links(p, i) == [p EXCEPT !.entries[i].prev = p.m.tail, !.entries[i].next = p.m.hand]

\* entries[m.hand].prev = e.index;
Ring_hand_prev(p, i) == [p EXCEPT !.entries[p.m.hand].prev = p.entries[i].index]

\* m.tail = e.index;
Ring_new_tail(p, i) == [p EXCEPT !.m.tail = p.entries[i].index]

Ring_on_insert(m, es, i) ==
    IF m.hand = Nil
    THEN PD([m EXCEPT !.hand = es[i].index, !.tail = es[i].index],
            [es EXCEPT ![i].next = es[i].index, ![i].prev = es[i].index])
    ELSE Ring_new_tail(Ring_hand_prev(Ring_links(Ring_tail_next(PD(m, es), i), i), i), i)

\* entries[e.prev].next = e.next;
Ring_unlink_prev(p, i) == [p EXCEPT !.entries[p.entries[i].prev].next = p.entries[i].next]

\* entries[e.next].prev = e.prev;
Ring_unlink_next(p, i) == [p EXCEPT !.entries[p.entries[i].next].prev = p.entries[i].prev]

\* if (m.hand == (int)e.index) m.hand = e.next;
Ring_hand_to_next(p, i) ==
    IF p.m.hand = p.entries[i].index THEN [p EXCEPT !.m.hand = p.entries[i].next] ELSE p

Ring_on_remove(m, es, i) ==
    IF es[i].next = es[i].index
    THEN PD([m EXCEPT !.hand = Nil, !.tail = Nil], [es EXCEPT ![i].next = Nil, ![i].prev = Nil])
    ELSE clear_links(tail_to_prev(Ring_hand_to_next(
             Ring_unlink_next(Ring_unlink_prev(PD(m, es), i), i), i), "tail", i), i)

\* The do-while of get_eviction_candidate: RingScan is one iteration up to
\* m.hand = entry.next, RingAdvance the pass count and the loop's exit.
RECURSIVE RingScan(_, _, _, _, _, _)
RECURSIVE RingAdvance(_, _, _, _, _, _)
RingScan(m, es, bit, start, pass, fuel) ==
    IF m.hand \notin DOMAIN es THEN Cand(m, es, BadIndex)
    ELSE IF fuel = 0 THEN Cand(m, es, Hang)
    ELSE IF can_evict(es[m.hand]) /\ ~es[m.hand][bit]
    THEN Cand([m EXCEPT !.hand = es[m.hand].next], es, m.hand)
    ELSE RingAdvance([m EXCEPT !.hand = es[m.hand].next],
                     IF can_evict(es[m.hand]) THEN [es EXCEPT ![m.hand][bit] = FALSE] ELSE es,
                     bit, start, pass, fuel)

RingAdvance(m, es, bit, start, pass, fuel) ==
    IF m.hand = start
    THEN IF pass + 1 = 2 THEN Cand(m, es, Nil)
         ELSE RingScan(m, es, bit, start, pass + 1, fuel - 1)
    ELSE RingScan(m, es, bit, start, pass, fuel - 1)

Ring_get_eviction_candidate(m, es, bit) ==
    IF m.hand = Nil THEN Cand(m, es, Nil)
    ELSE RingScan(m, es, bit, m.hand, 0, 2 * Fuel)

CLOCK_on_access(m, es, i) == PD(m, [es EXCEPT ![i].reference_bit = TRUE])
CLOCK_on_insert(m, es, i) == Ring_on_insert(m, es, i)
CLOCK_on_remove(m, es, i) == Ring_on_remove(m, es, i)
CLOCK_get_eviction_candidate(m, es) == Ring_get_eviction_candidate(m, es, "reference_bit")

SIEVE_on_access(m, es, i) == PD(m, [es EXCEPT ![i].visited = TRUE])
SIEVE_on_insert(m, es, i) == Ring_on_insert(m, es, i)
SIEVE_on_remove(m, es, i) == Ring_on_remove(m, es, i)
SIEVE_get_eviction_candidate(m, es) == Ring_get_eviction_candidate(m, es, "visited")

\* ==================================================================== ARC
\* add_to_list_head / remove_from_list take head and tail by reference; here
\* they take the names of the two ManagerData fields.
add_to_list_head(p, hd, tl, i) ==
    new_head(head_prev([p EXCEPT !.entries[i].next = p.m[hd], !.entries[i].prev = Nil],
                       hd, i), hd, tl, i)

remove_from_list(p, hd, tl, i) ==
    clear_links(tail_to_prev(head_to_next(unlink_next(unlink_prev(p, i), i), hd, i), tl, i), i)

\* count_list: count hops from idx to -1 (Hang when the list has no end).
RECURSIVE count_list(_, _, _, _)
count_list(idx, es, count, fuel) ==
    IF idx = Nil THEN count
    ELSE IF fuel = 0 THEN Hang
    ELSE count_list(es[idx].next, es, count + 1, fuel - 1)

find_evictable_from_tail(tail, es) == WalkList(es, tail, "prev", Fuel)

\* std::max / std::min on int.
Max(a, b) == IF a > b THEN a ELSE b
Min(a, b) == IF a < b THEN a ELSE b

\* e.in_t1 = b;
ARC_in_t1(p, i, b) == [p EXCEPT !.entries[i].in_t1 = b]

ARC_on_access(m, es, i) ==
    IF es[i].in_t1
    THEN ARC_in_t1(add_to_list_head(remove_from_list(PD(m, es), "t1_head", "t1_tail", i),
                                    "t2_head", "t2_tail", i), i, FALSE)
    ELSE add_to_list_head(remove_from_list(PD(m, es), "t2_head", "t2_tail", i),
                          "t2_head", "t2_tail", i)

ARC_on_insert(m, es, i) ==
    IF es[i].key \in m.b1_ghost
    THEN ARC_in_t1(add_to_list_head(
             PD([m EXCEPT !.p = Min(m.p + Max(1, Cardinality(m.b2_ghost) \div Cardinality(m.b1_ghost)),
                                    m.capacity),
                          !.b1_ghost = @ \ {es[i].key}], es),
             "t2_head", "t2_tail", i), i, FALSE)
    ELSE IF es[i].key \in m.b2_ghost
    THEN ARC_in_t1(add_to_list_head(
             PD([m EXCEPT !.p = Max(m.p - Max(1, Cardinality(m.b1_ghost) \div Cardinality(m.b2_ghost)),
                                    0),
                          !.b2_ghost = @ \ {es[i].key}], es),
             "t2_head", "t2_tail", i), i, FALSE)
    ELSE ARC_in_t1(add_to_list_head(PD(m, es), "t1_head", "t1_tail", i), i, TRUE)

\* m.b1_ghost[e.key] = true; / m.b2_ghost[e.key] = true;
ARC_ghost(p, ghost, i) == [p EXCEPT !.m[ghost] = @ \cup {p.entries[i].key}]

\* ARC_on_remove without the remove_from_list call.
ARC_on_remove_keeps_link(m, es, i) ==
    IF es[i].in_t1
    THEN ARC_ghost(PD(m, es), "b1_ghost", i)
    ELSE ARC_ghost(PD(m, es), "b2_ghost", i)

ARC_on_remove(m, es, i) ==
    IF es[i].in_t1
    THEN ARC_ghost(remove_from_list(PD(m, es), "t1_head", "t1_tail", i), "b1_ghost", i)
    ELSE ARC_ghost(remove_from_list(PD(m, es), "t2_head", "t2_tail", i), "b2_ghost", i)

\* The three cases of get_eviction_candidate, given the two counts.
ARC_case(m, es, t1_size, t2_size) ==
    IF t1_size = Hang \/ t2_size = Hang THEN Cand(m, es, Hang)
    ELSE IF t1_size > m.p THEN Cand(m, es, find_evictable_from_tail(m.t1_tail, es))
    ELSE IF t1_size = m.p /\ t2_size > 0 THEN Cand(m, es, find_evictable_from_tail(m.t2_tail, es))
    ELSE Cand(m, es, find_evictable_from_tail(m.t1_tail, es))

ARC_get_eviction_candidate(m, es) ==
    ARC_case(m, es, count_list(m.t1_head, es, 0, Fuel), count_list(m.t2_head, es, 0, Fuel))

\* ======================================================= policy dispatch
\* Policy::on_access etc. of the manager's template parameter.
on_access(pol, m, es, i) ==
    CASE pol = "LRU" -> LRU_on_access(m, es, i)
      [] pol = "LFU" -> LFU_on_access(m, es, i)
      [] pol = "FIFO" -> FIFO_on_access(m, es, i)
      [] pol = "CLOCK" -> CLOCK_on_access(m, es, i)
      [] pol = "SIEVE" -> SIEVE_on_access(m, es, i)
      [] pol = "ARC" -> ARC_on_access(m, es, i)

on_insert(pol, m, es, i) ==
    CASE pol = "LRU" -> LRU_on_insert(m, es, i)
      [] pol = "LFU" -> LFU_on_insert(m, es, i)
      [] pol = "FIFO" -> FIFO_on_insert(m, es, i)
      [] pol = "CLOCK" -> CLOCK_on_insert(m, es, i)
      [] pol = "SIEVE" -> SIEVE_on_insert(m, es, i)
      [] pol = "ARC" -> ARC_on_insert(m, es, i)

on_remove(pol, m, es, i) ==
    CASE pol = "LRU" -> LRU_on_remove(m, es, i)
      [] pol = "LFU" -> LFU_on_remove(m, es, i)
      [] pol = "FIFO" -> FIFO_on_remove(m, es, i)
      [] pol = "CLOCK" -> CLOCK_on_remove(m, es, i)
      [] pol = "SIEVE" -> SIEVE_on_remove(m, es, i)
      [] pol = "ARC" -> ARC_on_remove(m, es, i)

get_eviction_candidate(pol, m, es) ==
    CASE pol = "LRU" -> LRU_get_eviction_candidate(m, es)
      [] pol = "LFU" -> LFU_get_eviction_candidate(m, es)
      [] pol = "FIFO" -> FIFO_get_eviction_candidate(m, es)
      [] pol = "CLOCK" -> CLOCK_get_eviction_candidate(m, es)
      [] pol = "SIEVE" -> SIEVE_get_eviction_candidate(m, es)
      [] pol = "ARC" -> ARC_get_eviction_candidate(m, es)

\* ============================================================ the manager
\* The member variables of TemplateCacheManager as one record.
St == [cache_map |-> cache_map, entries |-> entries, entries_size |-> entries_size,
       free_indices |-> free_indices, policy_data |-> policy_data,
       cache_size |-> cache_size, used_entries |-> used_entries,
       hits |-> hits, misses |-> misses, evictions |-> evictions]

\* TemplateCacheManager(cache_size): every slot invalid, free stack cache_size-1 .. 0.
Construct(pol, n) ==
    [cache_map |-> EmptyMap,
     entries |-> [i \in 0..(n - 1) |-> DefaultEntry(pol)],
     entries_size |-> n,
     free_indices |-> [i \in 1..n |-> n - i],
     policy_data |-> ManagerData(pol),
     cache_size |-> n, used_entries |-> 0, hits |-> 0, misses |-> 0, evictions |-> 0]

\* it != cache_map_.end() && entries_[it->second].valid
Found(s, key) == MapHas(s.cache_map, key) /\ s.entries[s.cache_map[key]].valid

\* The manager after a policy hook ran on policy_data_ and entries_.
Hooked(s, p) == [s EXCEPT !.policy_data = p.m, !.entries = p.entries]

\* entries_[index] = EntryType(key, value, index); an index past the slab
\* stores into the memory behind it.
create_entry(pol, es, key, value, index) ==
    [x \in (DOMAIN es) \cup {index} |-> IF x = index THEN Entry(pol, key, value, index) ELSE es[x]]

\* evict_victim that forgets used_entries_--.
evict_victim_keeps_count(s, r, victim) ==
    [Hooked(s, r) EXCEPT !.evictions = @ + 1,
                         !.free_indices = Append(@, r.entries[victim].index)]

\* evict_victim that forgets evictions_++.
evict_victim_uncounted(s, r, victim) ==
    [Hooked(s, r) EXCEPT !.used_entries = @ - 1,
                         !.free_indices = Append(@, r.entries[victim].index)]

\* used_entries_--; evictions_++; free_indices_.push_back(candidate->index);
\* on the manager whose policy has removed the victim (r).
evict_victim(s, r, victim) ==
    [Hooked(s, r) EXCEPT !.used_entries = @ - 1, !.evictions = @ + 1,
                         !.free_indices = Append(@, r.entries[victim].index)]

\* evict_entry() from the policy's answer c on: no candidate, or
\* candidate->valid = false; ...; Policy::on_remove(...); ...; return candidate.
evict_candidate(pol, s, c) ==
    IF c.victim < 0 THEN [s |-> Hooked(s, c), victim |-> c.victim]
    ELSE [s |-> evict_victim(s, on_remove(pol, c.m, [c.entries EXCEPT ![c.victim].valid = FALSE],
                                          c.victim), c.victim),
          victim |-> c.victim]

\* evict_entry(): the state after the call and the slot of the returned entry
\* (Nil for nullptr; Hang / BadIndex when the victim search does not return).
\* The for loop runs its body at most once: both branches return.
evict_entry(pol, s) ==
    IF s.entries_size = 0 THEN [s |-> s, victim |-> Nil]
    ELSE evict_candidate(pol, s, get_eviction_candidate(pol, s.policy_data, s.entries))

\* What a call leaves behind: the state, the return value, whether the call
\* failed to return (stuck) and whether it stored through an index past the
\* slab (oob).
Out(s, ret) == [s |-> s, ret |-> ret, stuck |-> FALSE, oob |-> FALSE]

lookup(pol, s, key) ==
    IF Found(s, key)
    THEN [s |-> [Hooked(s, on_access(pol, s.policy_data, s.entries, s.cache_map[key]))
                    EXCEPT !.hits = @ + 1],
          ret |-> TRUE, value |-> s.entries[s.cache_map[key]].value]
    ELSE [s |-> [s EXCEPT !.misses = @ + 1], ret |-> FALSE, value |-> NoValue]

\* insert() from create_entry on, with the free index it drew.
insert_at(pol, s, key, value, index) ==
    [s |-> [Hooked(s, on_insert(pol, s.policy_data,
                                create_entry(pol, s.entries, key, value, index), index))
               EXCEPT !.free_indices = SubSeq(@, 1, Len(@) - 1),
                      !.cache_map = MapPut(@, key, index),
                      !.used_entries = @ + 1],
     ret |-> TRUE, stuck |-> FALSE, oob |-> index >= s.entries_size]

\* The tail of insert(): draw a free index, construct, index, link, count.
insert_new(pol, s, key, value) ==
    IF s.free_indices = <<>> THEN Out(s, FALSE)
    ELSE insert_at(pol, s, key, value, s.free_indices[Len(s.free_indices)])

\* insert() after evict_entry() returned e in a full cache.
insert_evicted(pol, s, e, key, value) ==
    IF e.victim = Nil THEN Out(e.s, FALSE)
    ELSE IF e.victim < 0 THEN [Out(s, FALSE) EXCEPT !.stuck = TRUE]
    ELSE insert_new(pol, [e.s EXCEPT !.cache_map = MapErase(@, e.s.entries[e.victim].key)],
                    key, value)

\* insert that overwrites the value of a key it finds.
insert_overwrites(pol, s, key, value) ==
    IF Found(s, key)
    THEN Out([Hooked(s, on_access(pol, s.policy_data, s.entries, s.cache_map[key]))
                 EXCEPT !.entries[s.cache_map[key]].value = value], FALSE)
    ELSE IF s.used_entries >= s.cache_size
    THEN insert_evicted(pol, s, evict_entry(pol, s), key, value)
    ELSE insert_new(pol, s, key, value)

insert(pol, s, key, value) ==
    IF Found(s, key)
    THEN Out(Hooked(s, on_access(pol, s.policy_data, s.entries, s.cache_map[key])), FALSE)
    ELSE IF s.used_entries >= s.cache_size
    THEN insert_evicted(pol, s, evict_entry(pol, s), key, value)
    ELSE insert_new(pol, s, key, value)

mark_dirty(s, key) ==
    IF Found(s, key) THEN [s EXCEPT !.entries[s.cache_map[key]].dirty = TRUE] ELSE s

\* mark_clean without the store entry.dirty = false.
mark_clean_no_store(s, key) == s

mark_clean(s, key) ==
    IF Found(s, key) THEN [s EXCEPT !.entries[s.cache_map[key]].dirty = FALSE] ELSE s

\* entry.valid = false; used_entries_--; free_indices_.push_back(entry.index);
\* on the manager whose policy has removed the entry of slot i (r).
\* invalidate() that treats a pinned or dirty entry as eviction does.
invalidate_unless_protected(s, r, i) ==
    IF can_evict(s.entries[i])
    THEN [Hooked(s, r) EXCEPT !.entries[i].valid = FALSE,
                              !.used_entries = @ - 1,
                              !.free_indices = Append(@, r.entries[i].index)]
    ELSE s

invalidate_entry(s, r, i) ==
    [Hooked(s, r) EXCEPT !.entries[i].valid = FALSE,
                         !.used_entries = @ - 1,
                         !.free_indices = Append(@, r.entries[i].index)]

\* The key stays in cache_map_: there is no erase in invalidate().
invalidate(pol, s, key) ==
    IF Found(s, key)
    THEN invalidate_entry(s, on_remove(pol, s.policy_data, s.entries, s.cache_map[key]),
                          s.cache_map[key])
    ELSE s

\* while (used_entries_ > cache_size_) { evict and erase, or break }
RECURSIVE resize_loop(_, _)
RECURSIVE resize_evicted(_, _, _)
resize_loop(pol, s) ==
    IF s.used_entries > s.cache_size THEN resize_evicted(pol, s, evict_entry(pol, s))
    ELSE Out(s, TRUE)

\* The loop body after evict_entry() returned e.
resize_evicted(pol, s, e) ==
    IF e.victim = Nil THEN Out(e.s, TRUE)
    ELSE IF e.victim < 0 THEN [Out(s, TRUE) EXCEPT !.stuck = TRUE]
    ELSE resize_loop(pol, [e.s EXCEPT !.cache_map = MapErase(@, e.s.entries[e.victim].key)])

resize(pol, s, new_cache_size) == resize_loop(pol, [s EXCEPT !.cache_size = new_cache_size])

clear(pol, s) ==
    [s EXCEPT !.cache_map = EmptyMap,
              !.free_indices = [i \in 1..s.cache_size |-> s.cache_size - i],
              !.policy_data = ManagerData(pol),
              !.entries = [i \in DOMAIN @ |-> IF i < s.entries_size THEN [@[i] EXCEPT !.valid = FALSE]
                                              ELSE @[i]],
              !.used_entries = 0, !.hits = 0, !.misses = 0, !.evictions = 0]

pin(s, key) ==
    IF Found(s, key) THEN [s EXCEPT !.entries[s.cache_map[key]].pin_count = @ + 1] ELSE s

\* unpin that drops every pin at once.
unpin_to_zero(s, key) ==
    IF Found(s, key) /\ s.entries[s.cache_map[key]].pin_count > 0
    THEN [s EXCEPT !.entries[s.cache_map[key]].pin_count = 0] ELSE s

\* unpin without the pin_count > 0 test.
unpin_unguarded(s, key) ==
    IF Found(s, key) THEN [s EXCEPT !.entries[s.cache_map[key]].pin_count = @ - 1] ELSE s

unpin(s, key) ==
    IF Found(s, key) /\ s.entries[s.cache_map[key]].pin_count > 0
    THEN [s EXCEPT !.entries[s.cache_map[key]].pin_count = @ - 1] ELSE s

\* The orders in which a range-for can walk cache_map_ (an unordered_map: the
\* iteration order is unspecified).
MapOrders(map) ==
    {o \in [1..Cardinality(DOMAIN map) -> DOMAIN map] :
        \A i, j \in DOMAIN o : i # j => o[i] # o[j]}

\* The loop of get_dirty(n) from position i of the walk on, with the keys
\* pushed so far: push a key whose slot is valid and dirty, then
\* if (dirty_keys.size() >= n) break.
RECURSIVE get_dirty_loop(_, _, _, _, _)
get_dirty_loop(s, n, order, i, dirty_keys) ==
    IF i > Len(order) THEN dirty_keys
    ELSE IF s.entries[s.cache_map[order[i]]].valid /\ s.entries[s.cache_map[order[i]]].dirty
    THEN IF Len(dirty_keys) + 1 >= n THEN Append(dirty_keys, order[i])
         ELSE get_dirty_loop(s, n, order, i + 1, Append(dirty_keys, order[i]))
    ELSE get_dirty_loop(s, n, order, i + 1, dirty_keys)

\* get_dirty(n) const, when the walk over cache_map_ takes the given order.
get_dirty(s, n, order) == get_dirty_loop(s, n, order, 1, <<>>)

\* ================================================================ actions
\* The call returned: the members are those of s and one more call was made.
Returned(s) ==
    /\ cache_map' = s.cache_map
    /\ entries' = s.entries
    /\ free_indices' = s.free_indices
    /\ policy_data' = s.policy_data
    /\ cache_size' = s.cache_size
    /\ used_entries' = s.used_entries
    /\ hits' = s.hits
    /\ misses' = s.misses
    /\ evictions' = s.evictions
    /\ calls' = calls + 1
    /\ UNCHANGED <<policy, entries_size, crashed>>
    /\ UNCHANGED <<threadvars, servervars>>

\* The call never returned (the victim search spins or reads slot -1, so the
\* thread keeps the mutex), or the process died in it.
Died ==
    /\ crashed' = TRUE
    /\ calls' = calls + 1
    /\ UNCHANGED <<policy, cache_map, entries, entries_size, free_indices, policy_data,
                   cache_size, used_entries, hits, misses, evictions>>
    /\ UNCHANGED <<threadvars, servervars>>

\* No thread is inside a call: the cache is used by one thread at a time, each
\* call taking and releasing mutex_ within its step.
NoCallOpen ==
    /\ mutex = 0
    /\ pc = [t \in Threads |-> "idle"]
    /\ arg = [t \in Threads |-> 0]
    /\ got = Nil

\* PageServer after init(): listening, no client yet, the backing file
\* created with file_size_ zero bytes.
Listening ==
    /\ client_fd = 0
    /\ accepted = 0
    /\ served = 0
    /\ req = <<>>
    /\ resp = <<>>
    /\ file = [i \in 0..(FileSize - 1) |-> 0]

\* A call can start: the process is alive and the call budget is not used up.
CanCall == ~crashed /\ calls < MaxOps

Init ==
    /\ policy \in Policies
    /\ cache_map = Construct(policy, Capacity).cache_map
    /\ entries = Construct(policy, Capacity).entries
    /\ entries_size = Capacity
    /\ free_indices = Construct(policy, Capacity).free_indices
    /\ policy_data = Construct(policy, Capacity).policy_data
    /\ cache_size = Capacity
    /\ used_entries = 0
    /\ hits = 0
    /\ misses = 0
    /\ evictions = 0
    /\ crashed = FALSE
    /\ calls = 0
    /\ NoCallOpen
    /\ Listening

Lookup(key) == CanCall /\ Returned(lookup(policy, St, key).s)

\* How a call that produced r ends.  A store through an index past the end of
\* entries_ is undefined: the process dies, or the store lands in the memory
\* behind the slab and is read back.
Ends(r) ==
    IF r.stuck THEN Died
    ELSE IF r.oob THEN Died \/ Returned(r.s)
    ELSE Returned(r.s)

Insert(key, value) == CanCall /\ Ends(insert(policy, St, key, value))

MarkDirty(key) == CanCall /\ Returned(mark_dirty(St, key))

MarkClean(key) == CanCall /\ Returned(mark_clean(St, key))

Invalidate(key) == CanCall /\ Returned(invalidate(policy, St, key))

Pin(key) == CanCall /\ Returned(pin(St, key))

Unpin(key) == CanCall /\ Returned(unpin(St, key))

Resize(n) == CanCall /\ Ends(resize(policy, St, n))

Clear == CanCall /\ Returned(clear(policy, St))

\* get_dirty(n) is a const member: it hands back keys and stores nothing.
GetDirty(n) ==
    /\ CanCall
    /\ \E order \in MapOrders(cache_map) : Len(get_dirty(St, n, order)) <= NumKeys
    /\ Returned(St)

Next ==
    \/ \E key \in Keys : Lookup(key)
    \/ \E key \in Keys, value \in Values : Insert(key, value)
    \/ \E key \in Keys : MarkDirty(key)
    \/ \E key \in Keys : MarkClean(key)
    \/ \E key \in Keys : Invalidate(key)
    \/ \E key \in Keys : Pin(key)
    \/ \E key \in Keys : Unpin(key)
    \/ \E n \in 0..MaxCacheSize : Resize(n)
    \/ Clear
    \/ \E n \in 0..MaxLimit : GetDirty(n)

Spec == Init /\ [][Next]_vars

\* The same cache driven without resize() and clear().
NextFixed ==
    \/ \E key \in Keys : Lookup(key)
    \/ \E key \in Keys, value \in Values : Insert(key, value)
    \/ \E key \in Keys : MarkDirty(key)
    \/ \E key \in Keys : MarkClean(key)
    \/ \E key \in Keys : Invalidate(key)
    \/ \E key \in Keys : Pin(key)
    \/ \E key \in Keys : Unpin(key)
    \/ \E n \in 0..MaxLimit : GetDirty(n)

FixedSpec == Init /\ [][NextFixed]_vars

\* An LFU cache in use: insert(1); insert(2); lookup(1); lookup(1);
\* invalidate(2); pin(1).  Key 1 sits in slot 0 with access count 3, the
\* bucket of count 1 is gone and min_count is 2.
LfuInUse ==
    pin(invalidate("LFU",
                   lookup("LFU",
                          lookup("LFU",
                                 insert("LFU", insert("LFU", Construct("LFU", Capacity), 1, 1).s,
                                        2, 1).s,
                                 1).s,
                          1).s,
                   2),
        1)

InitLfu ==
    /\ policy = "LFU"
    /\ cache_map = LfuInUse.cache_map
    /\ entries = LfuInUse.entries
    /\ entries_size = LfuInUse.entries_size
    /\ free_indices = LfuInUse.free_indices
    /\ policy_data = LfuInUse.policy_data
    /\ cache_size = LfuInUse.cache_size
    /\ used_entries = LfuInUse.used_entries
    /\ hits = LfuInUse.hits
    /\ misses = LfuInUse.misses
    /\ evictions = LfuInUse.evictions
    /\ crashed = FALSE
    /\ calls = 0
    /\ NoCallOpen
    /\ Listening

\* The calls that follow on the LFU cache in use.
LfuSpec == InitLfu /\ [][Next]_vars

\* A CLOCK or SIEVE cache of RingCapacity slots after construction.
InitRing ==
    /\ policy \in {"CLOCK", "SIEVE"}
    /\ cache_map = Construct(policy, RingCapacity).cache_map
    /\ entries = Construct(policy, RingCapacity).entries
    /\ entries_size = RingCapacity
    /\ free_indices = Construct(policy, RingCapacity).free_indices
    /\ policy_data = Construct(policy, RingCapacity).policy_data
    /\ cache_size = RingCapacity
    /\ used_entries = 0
    /\ hits = 0
    /\ misses = 0
    /\ evictions = 0
    /\ crashed = FALSE
    /\ calls = 0
    /\ NoCallOpen
    /\ Listening

\* The public calls with keys from RingKeys.
NextRing ==
    \/ \E key \in RingKeys : Lookup(key)
    \/ \E key \in RingKeys, value \in Values : Insert(key, value)
    \/ \E key \in RingKeys : MarkDirty(key)
    \/ \E key \in RingKeys : MarkClean(key)
    \/ \E key \in RingKeys : Invalidate(key)
    \/ \E key \in RingKeys : Pin(key)
    \/ \E key \in RingKeys : Unpin(key)
    \/ \E n \in 0..RingCapacity : Resize(n)
    \/ Clear
    \/ \E n \in 0..MaxLimit : GetDirty(n)

RingSpec == InitRing /\ [][NextRing]_vars

\* A CLOCK or SIEVE cache in use: three keys inserted, the first marked dirty,
\* a fourth inserted in place of the second.
RingInUse(pol) ==
    insert(pol,
           mark_dirty(insert(pol, insert(pol, insert(pol, Construct(pol, RingCapacity), 1, 1).s,
                                         2, 1).s,
                             3, 1).s,
                      1),
           4, 1).s

InitRingInUse ==
    /\ policy \in {"CLOCK", "SIEVE"}
    /\ cache_map = RingInUse(policy).cache_map
    /\ entries = RingInUse(policy).entries
    /\ entries_size = RingInUse(policy).entries_size
    /\ free_indices = RingInUse(policy).free_indices
    /\ policy_data = RingInUse(policy).policy_data
    /\ cache_size = RingInUse(policy).cache_size
    /\ used_entries = RingInUse(policy).used_entries
    /\ hits = RingInUse(policy).hits
    /\ misses = RingInUse(policy).misses
    /\ evictions = RingInUse(policy).evictions
    /\ crashed = FALSE
    /\ calls = 0
    /\ NoCallOpen
    /\ Listening

\* The calls that follow on the CLOCK / SIEVE cache in use.
RingInUseSpec == InitRingInUse /\ [][NextRing]_vars

\* ------------------------------------------- steady insertion of new keys
\* insert() of a key that is not resident came back with r.  The statistics
\* counters, which no decision of the cache reads, are followed up to
\* MaxCount, and the number of these inserts is not limited.
Churned(r) ==
    IF r.stuck THEN Died
    ELSE /\ cache_map' = r.s.cache_map
         /\ entries' = r.s.entries
         /\ free_indices' = r.s.free_indices
         /\ policy_data' = r.s.policy_data
         /\ cache_size' = r.s.cache_size
         /\ used_entries' = r.s.used_entries
         /\ hits' = Min(r.s.hits, MaxCount)
         /\ misses' = Min(r.s.misses, MaxCount)
         /\ evictions' = Min(r.s.evictions, MaxCount)
         /\ UNCHANGED <<policy, entries_size, crashed, calls>>
         /\ UNCHANGED <<threadvars, servervars>>

\* insert(key, value) of a key that the index does not find.
InsertFresh ==
    /\ ~crashed
    /\ \E key \in RingKeys :
          /\ ~Found(St, key)
          /\ \E r \in {insert(policy, St, key, 1)} : Churned(r)

\* A cache of RingCapacity slots after construction, under any policy.
InitChurn ==
    /\ policy \in Policies
    /\ cache_map = Construct(policy, RingCapacity).cache_map
    /\ entries = Construct(policy, RingCapacity).entries
    /\ entries_size = RingCapacity
    /\ free_indices = Construct(policy, RingCapacity).free_indices
    /\ policy_data = Construct(policy, RingCapacity).policy_data
    /\ cache_size = RingCapacity
    /\ used_entries = 0
    /\ hits = 0
    /\ misses = 0
    /\ evictions = 0
    /\ crashed = FALSE
    /\ calls = 0
    /\ NoCallOpen
    /\ Listening

\* One of the up to MaxSetup calls of pin() and unpin() that the client makes
\* among its inserts.
ChurnPin(key) == calls < MaxSetup /\ Pin(key)

ChurnUnpin(key) == calls < MaxSetup /\ Unpin(key)

NextChurn ==
    \/ InsertFresh
    \/ \E key \in RingKeys : ChurnPin(key)
    \/ \E key \in RingKeys : ChurnUnpin(key)

\* An insert of a new key while slots are free.
FillUp == used_entries < cache_size /\ InsertFresh

\* The client does not stop inserting new keys before the cache is full.
ChurnSpec == InitChurn /\ [][NextChurn]_vars /\ WF_vars(FillUp)

\* ------------------------------------------ several threads on one cache
\* Every member function but get_cache_size() opens with
\* std::lock_guard<std::mutex> lock(mutex_) and does all its reads and writes
\* behind it: a call is the step that takes the mutex and the step that runs
\* the body and releases it.

\* std::lock_guard<std::mutex> lock(mutex_) of a call other than resize().
Lock(t) ==
    /\ CanCall
    /\ pc[t] = "idle"
    /\ mutex = 0
    /\ mutex' = t
    /\ pc' = [pc EXCEPT ![t] = "locked"]
    /\ got' = Nil
    /\ UNCHANGED <<policy, cache_map, entries, entries_size, free_indices, policy_data,
                   cache_size, used_entries, hits, misses, evictions, crashed, calls, arg,
                   servervars>>

\* std::lock_guard<std::mutex> lock(mutex_) of resize(n).
LockResize(t, n) ==
    /\ CanCall
    /\ pc[t] = "idle"
    /\ mutex = 0
    /\ mutex' = t
    /\ pc' = [pc EXCEPT ![t] = "resizing"]
    /\ arg' = [arg EXCEPT ![t] = n]
    /\ got' = Nil
    /\ UNCHANGED <<policy, cache_map, entries, entries_size, free_indices, policy_data,
                   cache_size, used_entries, hits, misses, evictions, crashed, calls,
                   servervars>>

\* The body of thread t's call ran to its return on the members s, and the
\* lock_guard released the mutex.
Unlocked(t, s) ==
    /\ cache_map' = s.cache_map
    /\ entries' = s.entries
    /\ free_indices' = s.free_indices
    /\ policy_data' = s.policy_data
    /\ cache_size' = s.cache_size
    /\ used_entries' = s.used_entries
    /\ hits' = s.hits
    /\ misses' = s.misses
    /\ evictions' = s.evictions
    /\ calls' = calls + 1
    /\ mutex' = 0
    /\ pc' = [pc EXCEPT ![t] = "idle"]
    /\ arg' = [arg EXCEPT ![t] = 0]
    /\ got' = Nil
    /\ UNCHANGED <<policy, entries_size, crashed, servervars>>

\* A call whose body does not return keeps the mutex for good.
Returns(r) == ~r.stuck /\ ~r.oob

\* The body of the call that thread t is in.
Body(t) ==
    /\ pc[t] = "locked"
    /\ mutex = t
    /\ \/ \E key \in Keys : Unlocked(t, lookup(policy, St, key).s)
       \/ \E key \in Keys, value \in Values :
             /\ Returns(insert(policy, St, key, value))
             /\ Unlocked(t, insert(policy, St, key, value).s)
       \/ \E key \in Keys : Unlocked(t, mark_dirty(St, key))
       \/ \E key \in Keys : Unlocked(t, mark_clean(St, key))
       \/ \E key \in Keys : Unlocked(t, invalidate(policy, St, key))
       \/ \E key \in Keys : Unlocked(t, pin(St, key))
       \/ \E key \in Keys : Unlocked(t, unpin(St, key))
       \/ Unlocked(t, clear(policy, St))
       \* get_dirty() and the locking accessors (get_hits(), ...) change nothing
       \/ Unlocked(t, St)

\* The body of resize(): cache_size_ = new_cache_size; and the eviction loop.
BodyResize(t) ==
    /\ pc[t] = "resizing"
    /\ mutex = t
    /\ Returns(resize(policy, St, arg[t]))
    /\ Unlocked(t, resize(policy, St, arg[t]).s)

\* get_cache_size() const { return cache_size_; } takes no lock.  While
\* another thread is inside resize(), whose body stores to cache_size_, the
\* read and the store are unordered accesses to a plain uint64_t: a data race,
\* after which the value returned can be any.
GetCacheSize(t) ==
    /\ CanCall
    /\ pc[t] = "idle"
    /\ IF \E u \in Threads : pc[u] = "resizing"
       THEN got' \in 0..MaxCacheSize
       ELSE got' = cache_size
    /\ calls' = calls + 1
    /\ UNCHANGED <<policy, cache_map, entries, entries_size, free_indices, policy_data,
                   cache_size, used_entries, hits, misses, evictions, crashed,
                   mutex, pc, arg, servervars>>

\* std::lock_guard<std::mutex> lock(mutex_) of print_stats().
LockPrintStats(t) ==
    /\ CanCall
    /\ pc[t] = "idle"
    /\ mutex = 0
    /\ mutex' = t
    /\ pc' = [pc EXCEPT ![t] = "print_stats"]
    /\ got' = Nil
    /\ UNCHANGED <<policy, cache_map, entries, entries_size, free_indices, policy_data,
                   cache_size, used_entries, hits, misses, evictions, crashed, calls, arg,
                   servervars>>

\* The body of print_stats() up to "  Hit ratio: " << (get_hit_ratio() * 100.0):
\* with mutex_ held it calls get_hit_ratio(), which opens with its own
\* std::lock_guard<std::mutex> lock(mutex_).
PrintStats(t) ==
    /\ pc[t] = "print_stats"
    /\ mutex = t
    /\ pc' = [pc EXCEPT ![t] = "get_hit_ratio"]
    /\ UNCHANGED <<policy, cache_map, entries, entries_size, free_indices, policy_data,
                   cache_size, used_entries, hits, misses, evictions, crashed, calls,
                   mutex, arg, got, servervars>>

\* lock() of a std::mutex by the thread that owns it is undefined: the thread
\* waits for itself for good (no step is taken from "get_hit_ratio"), or the
\* lock is granted, get_hit_ratio() returns, and the rest of print_stats()
\* runs to its return.
HitRatioRelock(t) ==
    /\ pc[t] = "get_hit_ratio"
    /\ mutex = t
    /\ Unlocked(t, St)

\* One cache, constructed with Capacity slots, that the threads share.
InitShared ==
    /\ policy = "LRU"
    /\ cache_map = Construct(policy, Capacity).cache_map
    /\ entries = Construct(policy, Capacity).entries
    /\ entries_size = Capacity
    /\ free_indices = Construct(policy, Capacity).free_indices
    /\ policy_data = Construct(policy, Capacity).policy_data
    /\ cache_size = Capacity
    /\ used_entries = 0
    /\ hits = 0
    /\ misses = 0
    /\ evictions = 0
    /\ crashed = FALSE
    /\ calls = 0
    /\ NoCallOpen
    /\ Listening

NextShared ==
    \/ \E t \in Threads : Lock(t)
    \/ \E t \in Threads, n \in 0..MaxCacheSize : LockResize(t, n)
    \/ \E t \in Threads : Body(t)
    \/ \E t \in Threads : BodyResize(t)
    \/ \E t \in Threads : GetCacheSize(t)
    \/ \E t \in Threads : LockPrintStats(t)
    \/ \E t \in Threads : PrintStats(t)
    \/ \E t \in Threads : HitRatioRelock(t)

SharedSpec == InitShared /\ [][NextShared]_vars

\* ------------------------------------------------------------ page server
\* pageserver.h
PAGESERVER_MAGIC == 1346455365
PAGESERVER_VERSION == 1
PAGE_CMD_READ == 1
PAGE_CMD_WRITE == 2
PAGE_CMD_FLUSH == 3
PAGE_CMD_DISCARD == 4
PAGE_CMD_STAT == 5
PAGE_RESP_OK == 0
PAGE_RESP_ERROR == 1
PAGE_RESP_EOF == 2
PAGE_SIZE == 4096

\* What a client can put in the fields of a struct page_request.
Requests == [magic : {PAGESERVER_MAGIC, 0},
             version : {PAGESERVER_VERSION, 2},
             cmd : {PAGE_CMD_READ, PAGE_CMD_WRITE, PAGE_CMD_FLUSH, PAGE_CMD_DISCARD,
                    PAGE_CMD_STAT, 255},
             offset : 0..(2^OffsetBits - 1),
             length : 0..(2^LengthBits - 1)]

\* req->offset + req->length in the width of offset.
End(r) == (r.offset + r.length) % (2^OffsetBits)

\* validate_request without the test for overflow of offset + length.
validate_request_wrapped(r) ==
    IF r.cmd \in {PAGE_CMD_READ, PAGE_CMD_WRITE, PAGE_CMD_DISCARD}
    THEN ~(End(r) > FileSize)
    ELSE TRUE

validate_request(r) ==
    IF r.cmd \in {PAGE_CMD_READ, PAGE_CMD_WRITE, PAGE_CMD_DISCARD}
    THEN IF r.length > 0 /\ End(r) < r.offset
         THEN FALSE
         ELSE ~(End(r) > FileSize)
    ELSE TRUE

\* send_response: the response that reaches the client, none if send() fails.
send_response(sent, status, data) ==
    IF sent THEN <<[status |-> status, data |-> data]>> ELSE <<>>

\* The bytes offset .. offset + length - 1 of the backing file.
pread(f, r) == [i \in 1..r.length |-> f[r.offset + i - 1]]
pwrite(f, r, buffer) ==
    [i \in DOMAIN f |-> IF i >= r.offset /\ i < r.offset + r.length
                        THEN buffer[i - r.offset + 1] ELSE f[i]]
\* fallocate(FALLOC_FL_PUNCH_HOLE | FALLOC_FL_KEEP_SIZE): the range reads as zeros.
punch_hole(f, r) ==
    [i \in DOMAIN f |-> IF i >= r.offset /\ i < r.offset + r.length THEN 0 ELSE f[i]]

\* The server took a connection and is in the inner loop, about to read.
Serving == client_fd # 0 /\ served < MaxRequests

\* close(client_fd) after a break out of the inner loop.
Closed(sent) ==
    /\ client_fd' = 0
    /\ req' = <<>>
    /\ resp' = send_response(sent, PAGE_RESP_ERROR, <<>>)
    /\ served' = served + 1
    /\ UNCHANGED <<accepted, file>>

\* The inner loop goes round: the request r was handled, the response went out
\* (or not), the backing file is f.
Handled(r, response, f) ==
    /\ req' = <<r>>
    /\ resp' = response
    /\ file' = f
    /\ served' = served + 1
    /\ UNCHANGED <<client_fd, accepted>>

cachevars == <<policy, cache_map, entries, entries_size, free_indices, policy_data,
               cache_size, used_entries, hits, misses, evictions, crashed, calls,
               threadvars>>

\* accept() returns a new connection.
Accept ==
    /\ client_fd = 0
    /\ accepted < MaxConns
    /\ client_fd' = accepted + 1
    /\ accepted' = accepted + 1
    /\ req' = <<>>
    /\ resp' = <<>>
    /\ UNCHANGED <<served, file, cachevars>>

\* receive_request returns -1 (the client closed, or sent less than a header).
Disconnect ==
    /\ client_fd # 0
    /\ client_fd' = 0
    /\ req' = <<>>
    /\ resp' = <<>>
    /\ UNCHANGED <<accepted, served, file, cachevars>>

\* req.magic != PAGESERVER_MAGIC || req.version != PAGESERVER_VERSION
RejectProtocol ==
    /\ Serving
    /\ \E r \in Requests, sent \in BOOLEAN :
          /\ r.magic # PAGESERVER_MAGIC \/ r.version # PAGESERVER_VERSION
          /\ Closed(sent)
    /\ UNCHANGED cachevars

\* !validate_request(&req)
RejectBounds ==
    /\ Serving
    /\ \E r \in Requests, sent \in BOOLEAN :
          /\ r.magic = PAGESERVER_MAGIC /\ r.version = PAGESERVER_VERSION
          /\ ~validate_request(r)
          /\ Closed(sent)
    /\ UNCHANGED cachevars

\* The request passed both checks and the switch is reached.
Dispatched(r, cmd) ==
    /\ Serving
    /\ r.magic = PAGESERVER_MAGIC /\ r.version = PAGESERVER_VERSION
    /\ validate_request(r)
    /\ r.cmd = cmd

\* handle_read_request; done is FALSE when pread fails.
Read ==
    /\ Serving
    /\ \E r \in Requests, done \in BOOLEAN, sent \in BOOLEAN :
          /\ Dispatched(r, PAGE_CMD_READ)
          /\ IF done
             THEN Handled(r, send_response(sent, IF r.length = 0 THEN PAGE_RESP_EOF
                                                 ELSE PAGE_RESP_OK, pread(file, r)), file)
             ELSE Handled(r, send_response(sent, PAGE_RESP_ERROR, <<>>), file)
    /\ UNCHANGED cachevars

\* handle_write_request; buffer is what recv() delivered, whole is FALSE when
\* it was less than req->length bytes, done is FALSE when pwrite fails.
Write ==
    /\ Serving
    /\ \E r \in Requests, whole \in BOOLEAN, done \in BOOLEAN, sent \in BOOLEAN :
       \E buffer \in [1..r.length -> 0..1] :
          /\ Dispatched(r, PAGE_CMD_WRITE)
          /\ IF whole /\ done
             THEN Handled(r, send_response(sent, PAGE_RESP_OK, <<>>), pwrite(file, r, buffer))
             ELSE Handled(r, send_response(sent, PAGE_RESP_ERROR, <<>>), file)
    /\ UNCHANGED cachevars

\* handle_flush_request; done is FALSE when fsync fails.
Flush ==
    /\ Serving
    /\ \E r \in Requests, done \in BOOLEAN, sent \in BOOLEAN :
          /\ Dispatched(r, PAGE_CMD_FLUSH)
          /\ Handled(r, send_response(sent, IF done THEN PAGE_RESP_OK ELSE PAGE_RESP_ERROR, <<>>),
                     file)
    /\ UNCHANGED cachevars

\* handle_discard_request; fallocate fails for a length of 0 (EINVAL), and
\* when done is FALSE.
Discard ==
    /\ Serving
    /\ \E r \in Requests, done \in BOOLEAN, sent \in BOOLEAN :
          /\ Dispatched(r, PAGE_CMD_DISCARD)
          /\ IF done /\ r.length > 0
             THEN Handled(r, send_response(sent, PAGE_RESP_OK, <<>>), punch_hole(file, r))
             ELSE Handled(r, send_response(sent, PAGE_RESP_ERROR, <<>>), file)
    /\ UNCHANGED cachevars

\* handle_stat_request; done is FALSE when fstat fails.
Stat ==
    /\ Serving
    /\ \E r \in Requests, done \in BOOLEAN, sent \in BOOLEAN :
          /\ Dispatched(r, PAGE_CMD_STAT)
          /\ IF done
             THEN Handled(r, send_response(sent, PAGE_RESP_OK, <<FileSize, PAGE_SIZE>>), file)
             ELSE Handled(r, send_response(sent, PAGE_RESP_ERROR, <<>>), file)
    /\ UNCHANGED cachevars

\* default: of the switch.  Both of its break statements leave the switch,
\* not the while loop around it: the loop goes round and reads again.
UnknownCmd ==
    /\ Serving
    /\ \E r \in Requests, sent \in BOOLEAN :
          /\ r.magic = PAGESERVER_MAGIC /\ r.version = PAGESERVER_VERSION
          /\ validate_request(r)
          /\ r.cmd \notin {PAGE_CMD_READ, PAGE_CMD_WRITE, PAGE_CMD_FLUSH, PAGE_CMD_DISCARD,
                           PAGE_CMD_STAT}
          /\ Handled(r, send_response(sent, PAGE_RESP_ERROR, <<>>), file)
    /\ UNCHANGED cachevars

\* The page server runs beside no cache: the cache variables stay those of
\* an unused cache.
InitServer ==
    /\ policy = "LRU"
    /\ cache_map = Construct(policy, Capacity).cache_map
    /\ entries = Construct(policy, Capacity).entries
    /\ entries_size = Capacity
    /\ free_indices = Construct(policy, Capacity).free_indices
    /\ policy_data = Construct(policy, Capacity).policy_data
    /\ cache_size = Capacity
    /\ used_entries = 0
    /\ hits = 0
    /\ misses = 0
    /\ evictions = 0
    /\ crashed = FALSE
    /\ calls = 0
    /\ NoCallOpen
    /\ Listening

NextServer ==
    \/ Accept
    \/ Disconnect
    \/ RejectProtocol
    \/ RejectBounds
    \/ Read
    \/ Write
    \/ Flush
    \/ Discard
    \/ Stat
    \/ UnknownCmd

ServerSpec == InitServer /\ [][NextServer]_vars

\* ============================================================= properties
\* Slots that hold a valid entry.
ValidSlots(s) == {i \in DOMAIN s.entries : s.entries[i].valid}
\* Key k is resident: the index names a slot that holds a valid entry of k.
Resident(s, k) == Found(s, k) /\ s.entries[s.cache_map[k]].key = k
\* The bookkeeping of a slot that callers can observe.
Common(e) == [key |-> e.key, value |-> e.value, dirty |-> e.dirty, valid |-> e.valid,
              pin_count |-> e.pin_count]
Protected(e) == e.valid /\ (e.pin_count > 0 \/ e.dirty)
\* used_entries_ >= cache_size_: insert has to evict.
Full(s) == s.used_entries >= s.cache_size

\* C1: an entry that is pinned or dirty leaves its slot only in a step that is
\* an invalidate() or a clear(); no insert and no resize evicts it.
C1_ProtectedNeverEvicted ==
    [][\A i \in DOMAIN entries :
          (Protected(entries[i]) /\ (~entries'[i].valid \/ entries'[i].key # entries[i].key))
          => \/ St' = clear(policy, St)
             \/ \E k \in Keys : St' = invalidate(policy, St, k)]_vars

\* A protected entry sits in a cache that has evicted and in which the next
\* insert evicts again.
C1_Witness ==
    /\ calls < MaxOps
    /\ ~crashed
    /\ evictions > 0
    /\ \E i \in DOMAIN entries : Protected(entries[i])
    /\ \E k \in Keys, v \in Values : insert(policy, St, k, v).s.evictions > evictions

\* Slots whose entry the eligibility predicate accepts.
EligibleSlots(s) == {i \in ValidSlots(s) : can_evict(s.entries[i])}
\* Keys with a valid entry.
ResidentKeys(s) == {s.entries[i].key : i \in ValidSlots(s)}

\* C2: in a full cache with an eligible entry, insert of a key the index does
\* not find returns inserted, evicts exactly one eligible entry, makes the key
\* resident, adds one to evictions and leaves used_entries alone.
C2_FullCacheInsertEvictsOne ==
    \A k \in Keys, v \in Values :
        (~Found(St, k) /\ used_entries = cache_size /\ EligibleSlots(St) # {})
        => LET r == insert(policy, St, k, v)
           IN /\ r.ret
              /\ Resident(r.s, k)
              /\ r.s.evictions = evictions + 1
              /\ r.s.used_entries = used_entries
              /\ \E i \in EligibleSlots(St) :
                     ResidentKeys(r.s) = (ResidentKeys(St) \ {entries[i].key}) \cup {k}

C4_UsedEqualsIndexSize ==
    /\ used_entries = Cardinality(DOMAIN cache_map)
    /\ used_entries = Cardinality(ValidSlots(St))

\* C5: once a resident key k is invalidated it is out of the primary index and
\* lookup(k) misses, also after another key has been inserted in between.
C5_InvalidatedKeyMisses ==
    \A k \in Keys :
        Resident(St, k)
        => LET s1 == invalidate(policy, St, k)
           IN /\ ~MapHas(s1.cache_map, k)
              /\ ~lookup(policy, s1, k).ret
              /\ \A k2 \in Keys \ {k}, v \in Values :
                     ~lookup(policy, insert(policy, s1, k2, v).s, k).ret

\* lookup(k) on s hits and returns v.
Reads(s, k, v) == lookup(policy, s, k).ret /\ lookup(policy, s, k).value = v

\* C6: after insert(k, v) returned inserted, lookup(k) hits with v, also after
\* one call on another key k2 (an insert only when it evicts nothing).
C6_InsertedKeyReadable ==
    \A k \in Keys, v \in Values :
        insert(policy, St, k, v).ret
        => /\ Reads(insert(policy, St, k, v).s, k, v)
           /\ \A k2 \in Keys \ {k} :
                 /\ Reads(pin(insert(policy, St, k, v).s, k2), k, v)
                 /\ Reads(unpin(insert(policy, St, k, v).s, k2), k, v)
                 /\ Reads(mark_dirty(insert(policy, St, k, v).s, k2), k, v)
                 /\ Reads(mark_clean(insert(policy, St, k, v).s, k2), k, v)
                 /\ Reads(lookup(policy, insert(policy, St, k, v).s, k2).s, k, v)
                 /\ Reads(invalidate(policy, insert(policy, St, k, v).s, k2), k, v)
                 /\ \A v2 \in Values :
                        insert(policy, insert(policy, St, k, v).s, k2, v2).s.evictions
                            = insert(policy, St, k, v).s.evictions
                        => Reads(insert(policy, insert(policy, St, k, v).s, k2, v2).s, k, v)

\* C7: without resize() and clear(), used_entries never exceeds the capacity
\* the cache was constructed with.
C7_UsedWithinCapacity == used_entries <= entries_size /\ cache_size = entries_size

\* The cache is full and has evicted.
C7_Witness == used_entries = entries_size /\ entries_size = Capacity /\ evictions > 0

\* C8: insert on a resident key returns refused, keeps the stored value, keeps
\* used_entries, hits, misses and evictions, and changes the state only by
\* the policy's on_access on that entry.
C8_InsertExistingKeepsValue ==
    \A k \in Keys, v2 \in Values :
        Resident(St, k)
        => LET r == insert(policy, St, k, v2)
               i == cache_map[k]
               a == on_access(policy, policy_data, entries, i)
           IN /\ ~r.ret
              /\ lookup(policy, r.s, k).ret
              /\ lookup(policy, r.s, k).value = entries[i].value
              /\ \A j \in DOMAIN entries : Common(r.s.entries[j]) = Common(entries[j])
              /\ r.s = [St EXCEPT !.policy_data = a.m, !.entries = a.entries]

\* A resident key is inserted again with another value, and the call is refused.
C8_Witness ==
    /\ calls < MaxOps
    /\ ~crashed
    /\ \E k \in Keys, v2 \in Values :
          /\ Resident(St, k)
          /\ entries[cache_map[k]].value # v2
          /\ ~insert(policy, St, k, v2).ret
          /\ insert(policy, St, k, v2).s # St

\* C9: pin, unpin, mark_dirty, mark_clean and invalidate on a key that is not
\* resident change nothing.
C9_AbsentKeyNoOp ==
    \A k \in Keys :
        ~Resident(St, k)
        => /\ pin(St, k) = St
           /\ unpin(St, k) = St
           /\ mark_dirty(St, k) = St
           /\ mark_clean(St, k) = St
           /\ invalidate(policy, St, k) = St

\* The largest n of C10.
MaxPins == 2

RECURSIVE PinTimes(_, _, _)
PinTimes(s, k, n) == IF n = 0 THEN s ELSE PinTimes(pin(s, k), k, n - 1)
RECURSIVE UnpinTimes(_, _, _)
UnpinTimes(s, k, n) == IF n = 0 THEN s ELSE UnpinTimes(unpin(s, k), k, n - 1)

\* C10: for a resident clean unpinned key, n pins and then n unpins leave it
\* eligible; after fewer unpins it is not eligible and no insert and no resize
\* evicts it.
C10_PinUnpinBalance ==
    \A k \in Keys :
        (Resident(St, k) /\ can_evict(entries[cache_map[k]]))
        => \A n \in 1..MaxPins : \A m \in 0..n :
               LET s2 == UnpinTimes(PinTimes(St, k, n), k, m)
               IN /\ Resident(s2, k)
                  /\ m = n => can_evict(s2.entries[s2.cache_map[k]])
                  /\ m < n => /\ ~can_evict(s2.entries[s2.cache_map[k]])
                              /\ \A k2 \in Keys, v \in Values :
                                     Resident(insert(policy, s2, k2, v).s, k)
                              /\ \A sz \in 0..MaxCacheSize :
                                     Resident(resize(policy, s2, sz).s, k)

\* A key pinned MaxPins times sits in a full cache next to an eligible entry.
C10_Witness ==
    /\ calls < MaxOps
    /\ ~crashed
    /\ Full(St)
    /\ \E k \in Keys : /\ Resident(St, k)
                       /\ entries[cache_map[k]].pin_count = MaxPins
                       /\ ~entries[cache_map[k]].dirty
                       /\ \E k2 \in Keys, v \in Values :
                              insert(policy, St, k2, v).s.evictions > evictions

\* C11: no slot ever has a negative pin_count, and unpin on a resident key
\* whose pin_count is 0 changes nothing at all.
C11_PinCountNeverNegative ==
    /\ \A i \in DOMAIN entries : entries[i].pin_count >= 0
    /\ \A k \in Keys :
           (Resident(St, k) /\ entries[cache_map[k]].pin_count = 0)
           => unpin(St, k) = St

\* A resident key was pinned and unpinned back to 0 next to a pinned one, and
\* one more unpin can be called on it.
C11_Witness ==
    /\ CanCall
    /\ \E k \in Keys, k2 \in Keys :
          /\ Resident(St, k) /\ entries[cache_map[k]].pin_count = 0
          /\ Resident(St, k2) /\ entries[cache_map[k2]].pin_count > 0
          /\ unpin(St, k) = St

\* Keys that are resident with dirty = true.
DirtyKeys(s) == {k \in Keys : Resident(s, k) /\ s.entries[s.cache_map[k]].dirty}

\* The keys of a returned vector.
Range(seq) == {seq[i] : i \in DOMAIN seq}

\* C12: get_dirty(limit) returns at most limit keys, no key twice, each of
\* them resident and dirty; with limit at least the number of dirty resident
\* keys it returns exactly those keys.
C12_GetDirtySnapshot ==
    \A n \in 0..MaxLimit : \A order \in MapOrders(cache_map) :
        LET r == get_dirty(St, n, order)
        IN /\ Len(r) <= n
           /\ Cardinality(Range(r)) = Len(r)
           /\ Range(r) \subseteq DirtyKeys(St)
           /\ n >= Cardinality(DirtyKeys(St)) => Range(r) = DirtyKeys(St)

\* What callers can tell of a cache: which keys lookup finds and with what
\* bookkeeping, and the statistics.
View(s) ==
    [found |-> [k \in Keys |-> IF Found(s, k) THEN Common(s.entries[s.cache_map[k]])
                               ELSE Common(BaseDefault)],
     cache_size |-> s.cache_size, used_entries |-> s.used_entries,
     hits |-> s.hits, misses |-> s.misses, evictions |-> s.evictions]

\* The number of later calls that C13 follows.
MaxLater == 3

\* Caches a and b look the same now and after every run of at most depth
\* further lookup and insert calls, every call ending the same way on both.
RECURSIVE SameRuns(_, _, _)
SameRuns(a, b, depth) ==
    /\ View(a) = View(b)
    /\ depth > 0 =>
         \A k \in Keys :
            /\ lookup(policy, a, k).ret = lookup(policy, b, k).ret
            /\ SameRuns(lookup(policy, a, k).s, lookup(policy, b, k).s, depth - 1)
            /\ LET ra == insert(policy, a, k, 1)
                   rb == insert(policy, b, k, 1)
               IN /\ ra.ret = rb.ret
                  /\ ra.stuck = rb.stuck
                  /\ ra.oob = rb.oob
                  /\ SameRuns(ra.s, rb.s, depth - 1)

\* C13: clear() leaves no key resident, zero statistics, a reset policy state
\* and a free list holding each slot of the capacity exactly once, all of them
\* slots of the slab; and the cleared cache answers later calls as a freshly
\* constructed cache of the same capacity does.
C13_ClearIsFresh ==
    LET s == clear(policy, St)
        fresh == Construct(policy, cache_size)
    IN /\ \A k \in Keys : ~Found(s, k)
       /\ ValidSlots(s) = {}
       /\ s.used_entries = 0 /\ s.hits = 0 /\ s.misses = 0 /\ s.evictions = 0
       /\ s.policy_data = ManagerData(policy)
       /\ s.cache_size = cache_size
       /\ Len(s.free_indices) = s.cache_size
       /\ \A i, j \in DOMAIN s.free_indices : i # j => s.free_indices[i] # s.free_indices[j]
       /\ \A i \in DOMAIN s.free_indices : s.free_indices[i] < s.entries_size
       /\ SameRuns(s, fresh, MaxLater)

\* C14: resize(n) with n below the residency returns, and on return either
\* used_entries <= n or no resident entry is eligible (every one of them is
\* pinned or dirty).
C14_ResizeEvictsEligible ==
    \A n \in 0..MaxCacheSize :
        n < used_entries
        => /\ ~resize(policy, St, n).stuck
           /\ \/ resize(policy, St, n).s.used_entries <= n
              \/ EligibleSlots(resize(policy, St, n).s) = {}

\* C15: resize(0) returns with no eligible entry left; and from resize(0)
\* until the next resize(n) with n > 0, that is while cache_size = 0, every
\* insert of a key that is not resident is refused.
C15_ZeroCapacityRefuses ==
    /\ ~resize(policy, St, 0).stuck
    /\ EligibleSlots(resize(policy, St, 0).s) = {}
    /\ cache_size = 0
       => \A k \in Keys, v \in Values :
              ~Resident(St, k) => ~insert(policy, St, k, v).ret

\* C16: every lookup call adds one to exactly one of hits and misses, to hits
\* if and only if its key is resident; clear() sets both to 0; no other call
\* changes either.  So hits + misses counts the lookup calls made since
\* construction or the last clear().
C16_LookupsCounted ==
    [][/\ \A k \in Keys :
             Lookup(k) => /\ hits' + misses' = hits + misses + 1
                          /\ hits' = hits \/ misses' = misses
                          /\ hits' = hits + 1 <=> Resident(St, k)
       /\ Clear => hits' = 0 /\ misses' = 0
       /\ (~Clear /\ \A k \in Keys : ~Lookup(k)) => UNCHANGED <<hits, misses>>]_vars

\* insert(key, value) finds the cache full, replaces an entry and returns true.
Replaces(s, key, value) ==
    ~Found(s, key) /\ Full(s) /\ insert(policy, s, key, value).ret

\* The calls other than insert, resize and clear leave evictions alone.
EvictionsKept ==
    \A k \in Keys :
        /\ lookup(policy, St, k).s.evictions = evictions
        /\ mark_dirty(St, k).evictions = evictions
        /\ mark_clean(St, k).evictions = evictions
        /\ invalidate(policy, St, k).evictions = evictions
        /\ pin(St, k).evictions = evictions
        /\ unpin(St, k).evictions = evictions

\* An insert call adds one to evictions if it replaces an entry and nothing
\* otherwise.
InsertCountsReplacement ==
    \A k \in Keys, v \in Values :
        insert(policy, St, k, v).s.evictions
            = evictions + (IF Replaces(St, k, v) THEN 1 ELSE 0)

\* C17 as stated: evictions counts the insert calls that found the cache full,
\* replaced an entry and returned inserted: such a call adds one, and no other
\* call (clear() apart, which starts the count anew) changes evictions.
C17_EvictionsCountReplacements ==
    /\ InsertCountsReplacement
    /\ EvictionsKept
    /\ clear(policy, St).evictions = 0
    /\ \A n \in 0..MaxCacheSize : resize(policy, St, n).s.evictions = evictions

\* C17 amended: evictions counts the entries evicted by insert and by resize
\* since construction or the last clear(): a replacing insert adds one, a
\* resize adds the number of entries it evicted, clear() sets it to 0, and no
\* other call changes it.
C17_EvictionsCountEvicted ==
    /\ InsertCountsReplacement
    /\ EvictionsKept
    /\ clear(policy, St).evictions = 0
    /\ \A n \in 0..MaxCacheSize :
          /\ resize(policy, St, n).s.evictions >= evictions
          /\ resize(policy, St, n).s.evictions - evictions
                 = used_entries - resize(policy, St, n).s.used_entries
          /\ resize(policy, St, n).s.evictions - evictions
                 = Cardinality(ValidSlots(St)) - Cardinality(ValidSlots(resize(policy, St, n).s))

\* Both kinds of eviction were counted: a replacing insert left the cache
\* full, and a resize then emptied it.
C17_Witness ==
    /\ evictions = 3
    /\ used_entries = 0
    /\ cache_size = 0
    /\ cache_map = EmptyMap

\* The slots of a linked list from slot idx on, following the given link.
RECURSIVE Chain(_, _, _, _)
Chain(es, idx, link, fuel) ==
    IF idx = Nil \/ fuel = 0 THEN <<>>
    ELSE <<idx>> \o Chain(es, es[idx][link], link, fuel - 1)

\* A sequence without the members of a set, and its last member in a set.
Without(seq, S) == SelectSeq(seq, LAMBDA x : x \notin S)
LastIn(seq, S) ==
    IF \E i \in DOMAIN seq : seq[i] \in S
    THEN seq[CHOOSE i \in DOMAIN seq : seq[i] \in S /\ \A j \in DOMAIN seq : seq[j] \in S => j <= i]
    ELSE Nil

\* The LRU list from head to tail: the slots in the order of their last touch,
\* the most recently touched first.
LruSlots(s) == Chain(s.entries, s.policy_data.head, "next", Fuel)

\* The slot a touch moved to the front.
Touched(s, i) == <<i>> \o Without(LruSlots(s), {i})

\* The slots left in their old order after some entries were removed.
Remaining(s, after) == Without(LruSlots(s), DOMAIN s.entries \ ValidSlots(after))

\* LRU, capacity 3: insert 1, 2, 3; lookup 1; insert 4 evicts key 2.
LruExample ==
    LET s1 == insert("LRU", Construct("LRU", 3), 1, 1).s
        s2 == insert("LRU", s1, 2, 1).s
        s3 == insert("LRU", s2, 3, 1).s
        s4 == lookup("LRU", s3, 1).s
        r == insert("LRU", s4, 4, 1)
    IN /\ r.ret
       /\ ~Resident(r.s, 2)
       /\ Resident(r.s, 1) /\ Resident(r.s, 3) /\ Resident(r.s, 4)

\* C18: with LRU the list keeps the entries in the order of their last touch,
\* where the touches are an entry's insertion, a lookup hit on it and an insert
\* call on its resident key, and no other call reorders entries; the victim of
\* an insert into a full cache is the last eligible entry of that order.
C18_LruEvictsLeastRecentlyTouched ==
    policy = "LRU" =>
      /\ LruExample
      /\ \A k \in Keys :
            /\ LruSlots(lookup(policy, St, k).s)
                   = IF lookup(policy, St, k).ret THEN Touched(St, cache_map[k])
                     ELSE LruSlots(St)
            /\ LruSlots(pin(St, k)) = LruSlots(St)
            /\ LruSlots(unpin(St, k)) = LruSlots(St)
            /\ LruSlots(mark_dirty(St, k)) = LruSlots(St)
            /\ LruSlots(mark_clean(St, k)) = LruSlots(St)
            /\ LruSlots(invalidate(policy, St, k))
                   = Remaining(St, invalidate(policy, St, k))
      /\ \A n \in 0..MaxCacheSize :
            LruSlots(resize(policy, St, n).s) = Remaining(St, resize(policy, St, n).s)
      /\ LruSlots(clear(policy, St)) = <<>>
      /\ \A k \in Keys, v \in Values :
            LET r == insert(policy, St, k, v)
                victim == LastIn(LruSlots(St), EligibleSlots(St))
            IN IF Resident(St, k) THEN LruSlots(r.s) = Touched(St, cache_map[k])
               ELSE IF ~r.ret THEN LruSlots(r.s) = LruSlots(St)
               ELSE IF Full(St)
               THEN /\ victim # Nil
                    /\ ~Resident(r.s, entries[victim].key)
                    /\ r.s.cache_map[k] = victim
                    /\ LruSlots(r.s) = Touched(St, victim)
               ELSE LruSlots(r.s) = <<r.s.cache_map[k]>> \o LruSlots(St)

\* The first member of a sequence that lies in a set.
FirstIn(seq, S) ==
    IF \E i \in DOMAIN seq : seq[i] \in S
    THEN seq[CHOOSE i \in DOMAIN seq : seq[i] \in S /\ \A j \in DOMAIN seq : seq[j] \in S => i <= j]
    ELSE Nil

\* The FIFO list from head to tail: the slots in the order of their insertion,
\* the earliest first.
FifoSlots(s) == Chain(s.entries, s.policy_data.head, "next", Fuel)

\* The slots left in their old order after some entries were removed.
FifoRemaining(s, after) == Without(FifoSlots(s), DOMAIN s.entries \ ValidSlots(after))

\* FIFO, capacity 2: insert 1, 2; lookup 1; insert 3 evicts key 1.
FifoExample ==
    LET s1 == insert("FIFO", Construct("FIFO", 2), 1, 1).s
        s2 == insert("FIFO", s1, 2, 1).s
        s3 == lookup("FIFO", s2, 1).s
        r == insert("FIFO", s3, 3, 1)
    IN /\ r.ret
       /\ ~Resident(r.s, 1)
       /\ Resident(r.s, 2) /\ Resident(r.s, 3)

\* C19: with FIFO the list keeps the entries in the order of their insertion;
\* a lookup, hit or miss, and an insert call on a key that is found leave the
\* order as it is, as does every call that removes nothing; the victim of an
\* insert into a full cache is the first eligible entry of that order.
C19_FifoEvictsEarliestInserted ==
    policy = "FIFO" =>
      /\ FifoExample
      /\ \A k \in Keys :
            /\ FifoSlots(lookup(policy, St, k).s) = FifoSlots(St)
            /\ FifoSlots(pin(St, k)) = FifoSlots(St)
            /\ FifoSlots(unpin(St, k)) = FifoSlots(St)
            /\ FifoSlots(mark_dirty(St, k)) = FifoSlots(St)
            /\ FifoSlots(mark_clean(St, k)) = FifoSlots(St)
            /\ FifoSlots(invalidate(policy, St, k))
                   = FifoRemaining(St, invalidate(policy, St, k))
      /\ \A n \in 0..MaxCacheSize :
            FifoSlots(resize(policy, St, n).s) = FifoRemaining(St, resize(policy, St, n).s)
      /\ FifoSlots(clear(policy, St)) = <<>>
      /\ \A k \in Keys, v \in Values :
            LET r == insert(policy, St, k, v)
                victim == FirstIn(FifoSlots(St), EligibleSlots(St))
            IN IF Found(St, k) \/ ~r.ret THEN FifoSlots(r.s) = FifoSlots(St)
               ELSE IF Full(St)
               THEN /\ victim # Nil
                    /\ ~Resident(r.s, entries[victim].key)
                    /\ r.s.cache_map[k] = victim
                    /\ FifoSlots(r.s) = Without(FifoSlots(St), {victim}) \o <<victim>>
               ELSE FifoSlots(r.s) = FifoSlots(St) \o <<r.s.cache_map[k]>>

\* A full FIFO cache that has seen a lookup hit admits a key, and the entry
\* inserted earliest is protected, so the victim is a later one.
C19_Witness ==
    /\ policy = "FIFO"
    /\ CanCall
    /\ hits > 0
    /\ Full(St)
    /\ \E k \in Keys, v \in Values :
          /\ Replaces(St, k, v)
          /\ FirstIn(FifoSlots(St), EligibleSlots(St)) # policy_data.head

\* The access counts an entry can have within the call budget.
Counts == 1..(MaxOps + 2)

\* The bucket of count c from its head on: the slots in the order in which
\* they joined the bucket, the earliest first.
BucketSlots(s, c) ==
    IF MapHas(s.policy_data.bucket_heads, c)
    THEN Chain(s.entries, s.policy_data.bucket_heads[c], "next_in_bucket", Fuel)
    ELSE <<>>

\* The smallest access count of a resident entry (0 when nothing is resident).
MinResidentCount(s) ==
    IF ValidSlots(s) = {} THEN 0
    ELSE CHOOSE c \in Counts :
            /\ \E i \in ValidSlots(s) : s.entries[i].access_count = c
            /\ \A i \in ValidSlots(s) : s.entries[i].access_count >= c

\* C20: with LFU an entry that evict_entry() removes for insert or resize has
\* the smallest access count of all resident entries, and it is the first
\* eligible entry of the bucket of that count in the order of joining.
C20_LfuEvictsLeastFrequent ==
    (policy = "LFU" /\ (used_entries > 0 \/ Full(St)))
    => LET victim == evict_entry(policy, St).victim
       IN victim >= 0
          => /\ entries[victim].access_count = MinResidentCount(St)
             /\ victim = FirstIn(BucketSlots(St, MinResidentCount(St)), EligibleSlots(St))

\* A cache of RingCapacity slots after insert(1); insert(2); insert(3);
\* lookup(1); lookup(2).
AfterLookups(pol) ==
    lookup(pol,
           lookup(pol,
                  insert(pol, insert(pol, insert(pol, Construct(pol, RingCapacity), 1, 1).s,
                                     2, 1).s,
                         3, 1).s,
                  1).s,
           2).s

\* C21: CLOCK, capacity 3: after insert(1); insert(2); insert(3); lookup(1);
\* lookup(2) the reference bit of key 3 alone is clear, and insert(4) evicts
\* key 3 and keeps the looked-up keys 1 and 2.
C21_ClockEvictsNeverLookedUp ==
    (policy = "CLOCK" /\ St = AfterLookups("CLOCK"))
    => /\ \A k \in RingKeys :
             Resident(St, k) => (entries[cache_map[k]].reference_bit <=> k # 3)
       /\ insert(policy, St, 4, 1).ret
       /\ ~Resident(insert(policy, St, 4, 1).s, 3)
       /\ Resident(insert(policy, St, 4, 1).s, 1)
       /\ Resident(insert(policy, St, 4, 1).s, 2)
       /\ Resident(insert(policy, St, 4, 1).s, 4)

\* p after a ghost hit in B1 with the ghost lists of m: p + max(1, |B2|/|B1|),
\* capped at the capacity.
GrownP(m, capacity) ==
    Min(m.p + Max(1, Cardinality(m.b2_ghost) \div Cardinality(m.b1_ghost)), capacity)

\* ARC, capacity 2: after insert(1); insert(2); insert(3); insert(1) key 1 is
\* resident and p is greater than 0.
ArcExample ==
    LET s1 == insert("ARC", Construct("ARC", 2), 1, 1).s
        s2 == insert("ARC", s1, 2, 1).s
        s3 == insert("ARC", s2, 3, 1).s
        r == insert("ARC", s3, 1, 1)
    IN /\ 1 \in s3.policy_data.b1_ghost
       /\ r.ret
       /\ Resident(r.s, 1)
       /\ r.s.policy_data.p > 0

\* C22: with ARC an insert that admits a key found in B1 puts the entry at
\* the head (MRU end) of T2, takes the key out of B1 and raises p by
\* max(1, |B2|/|B1|) up to the capacity, the ghost lists being those that the
\* insert finds once it has made room; and the capacity-2 example holds.
C22_ArcGhostHitB1 ==
    policy = "ARC" =>
      /\ ArcExample
      /\ \A k \in Keys, v \in Values :
            LET r == insert(policy, St, k, v)
                before == IF Full(St) THEN evict_entry(policy, St).s.policy_data
                          ELSE policy_data
            IN (~Found(St, k) /\ r.ret /\ k \in before.b1_ghost)
               => /\ Resident(r.s, k)
                  /\ r.s.policy_data.t2_head = r.s.cache_map[k]
                  /\ ~r.s.entries[r.s.cache_map[k]].in_t1
                  /\ k \notin r.s.policy_data.b1_ghost
                  /\ r.s.policy_data.p = GrownP(before, cache_size)

\* C23: with several threads calling the cache, every call takes effect
\* atomically under the one mutex, so each accessor returns a value of a state
\* of the sequential order of the calls.  For the capacity accessor: the value
\* get_cache_size() returned is the capacity before or after a resize() that
\* is running at that moment, i.e. the current cache_size_ or the
\* new_cache_size of a thread inside resize().
C23_AccessorsSeeSequentialState ==
    got # Nil =>
        got \in {cache_size} \cup {arg[u] : u \in {v \in Threads : pc[v] = "resizing"}}

\* The dirty flag of resident key k and whether k's entry may be evicted.
Flag(s, k) == <<s.entries[s.cache_map[k]].dirty, can_evict(s.entries[s.cache_map[k]])>>

\* C24 (as stated): for a resident key k, mark_dirty(k); mark_clean(k) leaves
\* k's dirty flag and its eligibility for eviction what they were before the
\* two calls.
C24_DirtyCleanIsNoOp ==
    \A k \in Keys :
        Resident(St, k) => Flag(mark_clean(mark_dirty(St, k), k), k) = Flag(St, k)

\* C24 (amended): for a resident key k that is not dirty, mark_dirty(k);
\* mark_clean(k) leaves k's dirty flag and its eligibility what they were,
\* and changes nothing else in the cache; for a resident key that is dirty
\* the two calls leave it clean.
C24_DirtyCleanOfCleanIsNoOp ==
    \A k \in Keys :
        Resident(St, k) =>
            /\ ~entries[cache_map[k]].dirty => mark_clean(mark_dirty(St, k), k) = St
            /\ ~mark_clean(mark_dirty(St, k), k).entries[cache_map[k]].dirty

C24_Witness ==
    /\ CanCall
    /\ \E k \in Keys, k2 \in Keys :
          /\ Resident(St, k) /\ can_evict(entries[cache_map[k]])
          /\ ~can_evict(mark_dirty(St, k).entries[cache_map[k]])
          /\ Resident(St, k2) /\ entries[cache_map[k2]].dirty

\* C25: invalidate(k) of a resident key removes it whether or not it is
\* pinned or dirty (the key is no longer found and its slot is not valid),
\* decrements used_entries by one, returns the slot to the free list, and
\* leaves evictions, hits and misses unchanged.
C25_InvalidateRemovesResident ==
    \A k \in Keys :
        Resident(St, k) =>
            /\ ~Found(invalidate(policy, St, k), k)
            /\ ~invalidate(policy, St, k).entries[cache_map[k]].valid
            /\ invalidate(policy, St, k).used_entries = used_entries - 1
            /\ invalidate(policy, St, k).free_indices = Append(free_indices, cache_map[k])
            /\ invalidate(policy, St, k).evictions = evictions
            /\ invalidate(policy, St, k).hits = hits
            /\ invalidate(policy, St, k).misses = misses

C25_Witness ==
    /\ CanCall
    /\ Full(St)
    /\ \E k \in Keys :
          /\ Resident(St, k)
          /\ entries[cache_map[k]].pin_count > 0
          /\ entries[cache_map[k]].dirty
          /\ invalidate(policy, St, k).used_entries = used_entries - 1

\* Key k is in ghost list B1 or B2 and is not resident.
OnlyGhost(s, k) ==
    /\ k \in s.policy_data.b1_ghost \cup s.policy_data.b2_ghost
    /\ ~Resident(s, k)

\* C26: with the ARC policy, lookup of a key that is only in ghost list B1 or
\* B2 reports a miss, returns no value, increments misses, and leaves the
\* ghost lists, p and the resident lists (and everything else) unchanged.
C26_ArcGhostLookupMisses ==
    policy = "ARC" =>
        \A k \in Keys :
            OnlyGhost(St, k) =>
                /\ ~lookup(policy, St, k).ret
                /\ lookup(policy, St, k).value = NoValue
                /\ lookup(policy, St, k).s = [St EXCEPT !.misses = @ + 1]

\* A request the server has to refuse: bad magic, bad version, unknown cmd,
\* or, for the commands that take a range, an offset + length that overflows
\* or ends beyond the backing file.
Offending(r) ==
    \/ r.magic # PAGESERVER_MAGIC
    \/ r.version # PAGESERVER_VERSION
    \/ r.cmd \notin {PAGE_CMD_READ, PAGE_CMD_WRITE, PAGE_CMD_FLUSH, PAGE_CMD_DISCARD,
                     PAGE_CMD_STAT}
    \/ /\ r.cmd \in {PAGE_CMD_READ, PAGE_CMD_WRITE, PAGE_CMD_DISCARD}
       /\ r.offset + r.length > FileSize

\* C27: the page server closes the connection (after optionally sending an
\* ERROR response) whenever a request has a bad magic, a bad version, an
\* unknown cmd, or an offset + length that overflows or exceeds the backing
\* file size, and reads no further request of that connection: a connection
\* that is still open for reading has had no such request as its last one.
C27_BadRequestClosesConnection ==
    (client_fd # 0 /\ req # <<>>) => ~Offending(req[1])

\* C28: for each of the six policies and every reachable policy state,
\* get_eviction_candidate returns either none or an entry that satisfies the
\* eligibility predicate (valid, pin_count == 0, not dirty) at the moment it
\* is returned.
C28_CandidateIsEligible ==
    ~crashed =>
        \/ get_eviction_candidate(policy, policy_data, entries).victim = Nil
        \/ /\ get_eviction_candidate(policy, policy_data, entries).victim \in DOMAIN entries
           /\ can_evict(get_eviction_candidate(policy, policy_data, entries).entries[
                  get_eviction_candidate(policy, policy_data, entries).victim])

C28_Witness ==
    /\ ~crashed
    /\ \E i \in ValidSlots(St) : ~can_evict(entries[i])
    /\ get_eviction_candidate(policy, policy_data, entries).victim \in EligibleSlots(St)
    /\ get_eviction_candidate(policy, policy_data, entries).victim # 0

\* The first n slots on the way from the hand along next.
FromHand(s, n) == Chain(s.entries, s.policy_data.hand, "next", n)

\* The ring of CLOCK and SIEVE is well formed: from the hand, next leads
\* through exactly the valid slots, each once, and back to the hand; prev is
\* the inverse of next; the hand is -1 exactly when no slot is valid.
RingWellFormed(s) ==
    /\ s.policy_data.hand = Nil <=> ValidSlots(s) = {}
    /\ Len(FromHand(s, Cardinality(ValidSlots(s)))) = Cardinality(ValidSlots(s))
    /\ Range(FromHand(s, Cardinality(ValidSlots(s)))) = ValidSlots(s)
    /\ \A i \in ValidSlots(s) :
          /\ s.entries[i].next \in ValidSlots(s)
          /\ s.entries[s.entries[i].next].prev = i
    /\ ValidSlots(s) # {} =>
          s.entries[s.policy_data.tail].next = s.policy_data.hand

\* C29: for CLOCK and SIEVE, after every public operation (including an
\* insert that follows an eviction during which the hand skipped pinned or
\* dirty entries) the entries reachable from the hand by following next form
\* a single cycle that contains exactly the valid slots, each once, with prev
\* the inverse of next; the hand is -1 exactly when no entry is resident.
C29_RingIsCycleOfValidSlots ==
    (policy \in {"CLOCK", "SIEVE"} /\ ~crashed) => RingWellFormed(St)

\* How often slot i is linked in the bucket of count c.
TimesLinked(s, c, i) ==
    Cardinality({j \in DOMAIN BucketSlots(s, c) : BucketSlots(s, c)[j] = i})

\* The access counts that resident entries have.
ResidentCounts(s) == {s.entries[i].access_count : i \in ValidSlots(s)}

\* C30: for LFU, after every public operation every valid entry is linked
\* exactly once in the bucket of its access_count (and in no other bucket),
\* bucket_heads and bucket_tails contain exactly the non-empty buckets, and
\* whenever the cache is non-empty min_count equals the smallest access count
\* of any resident entry.
C30_LfuBucketsWellFormed ==
    (policy = "LFU" /\ ~crashed) =>
        /\ \A i \in ValidSlots(St) :
              \A c \in DOMAIN policy_data.bucket_heads \cup {entries[i].access_count} :
                  TimesLinked(St, c, i) = IF c = entries[i].access_count THEN 1 ELSE 0
        /\ DOMAIN policy_data.bucket_heads = ResidentCounts(St)
        /\ DOMAIN policy_data.bucket_tails = ResidentCounts(St)
        /\ ValidSlots(St) # {} => policy_data.min_count = MinResidentCount(St)

\* The list with the given head and tail holds exactly the slots S: next
\* leads from the head through each slot of S once to the tail and ends
\* there, prev leads back, and both ends are -1 when S is empty.
ListHolds(es, head, tail, S) ==
    /\ Len(Chain(es, head, "next", Cardinality(S) + 1)) = Cardinality(S)
    /\ Range(Chain(es, head, "next", Cardinality(S) + 1)) = S
    /\ IF S = {} THEN head = Nil /\ tail = Nil
       ELSE /\ es[head].prev = Nil
            /\ es[tail].next = Nil
            /\ tail = Chain(es, head, "next", Cardinality(S) + 1)[Cardinality(S)]
            /\ \A i \in S : es[i].next # Nil => es[es[i].next].prev = i

\* C31: for LRU and FIFO (one list) and ARC (lists T1 and T2), after every
\* public operation the slots reachable from the list heads are exactly the
\* valid slots, each appears exactly once, prev/next links are mutually
\* consistent with head and tail at the two ends, and in ARC each entry's
\* in_t1 flag names the list that holds it.
C31_ListsHoldValidSlots ==
    ~crashed =>
        /\ policy \in {"LRU", "FIFO"} =>
              ListHolds(entries, policy_data.head, policy_data.tail, ValidSlots(St))
        /\ policy = "ARC" =>
              /\ ListHolds(entries, policy_data.t1_head, policy_data.t1_tail,
                           {i \in ValidSlots(St) : entries[i].in_t1})
              /\ ListHolds(entries, policy_data.t2_head, policy_data.t2_tail,
                           {i \in ValidSlots(St) : ~entries[i].in_t1})

C31_Witness ==
    /\ policy = "ARC"
    /\ ~crashed
    /\ evictions > 0
    /\ \E i \in ValidSlots(St), j \in ValidSlots(St) : entries[i].in_t1 /\ ~entries[j].in_t1

\* The victim search of CLOCK / SIEVE in state s, allowed as many steps of the
\* hand as two full rotations over the resident entries take.
TwoRotations(pol, s) ==
    IF s.policy_data.hand = Nil THEN Cand(s.policy_data, s.entries, Nil)
    ELSE RingScan(s.policy_data, s.entries,
                  IF pol = "CLOCK" THEN "reference_bit" ELSE "visited",
                  s.policy_data.hand, 0, 2 * Cardinality(ValidSlots(s)))

\* C32: for CLOCK and SIEVE, get_eviction_candidate terminates in every
\* reachable state after the hand has made at most two full rotations of the
\* ring, returning none if no eligible entry was found.
C32_RingSearchTerminates ==
    (policy \in {"CLOCK", "SIEVE"} /\ ~crashed) =>
        /\ TwoRotations(policy, St).victim \notin {Hang, BadIndex}
        /\ EligibleSlots(St) = {} => TwoRotations(policy, St).victim = Nil

\* C33: in every reachable state the free-index stack and the set of valid
\* slots are disjoint, the free stack contains no duplicates, every index in
\* it addresses an existing slab slot, and free slots together with valid
\* slots cover [0, capacity) - also after resize and clear.
C33_FreeAndValidPartitionSlots ==
    ~crashed =>
        /\ Range(free_indices) \cap ValidSlots(St) = {}
        /\ \A i, j \in DOMAIN free_indices : i # j => free_indices[i] # free_indices[j]
        /\ \A i \in DOMAIN free_indices : free_indices[i] \in 0..(entries_size - 1)
        /\ Range(free_indices) \cup ValidSlots(St) = 0..(cache_size - 1)

\* C34: whenever used_entries < capacity - including after resize(n) has
\* raised the capacity above the size the cache was constructed with - insert
\* of a non-resident key returns inserted without evicting anything, and
\* used_entries increases by one.
C34_InsertBelowCapacityAdmits ==
    ~crashed =>
        \A k \in Keys, v \in Values :
            (~Found(St, k) /\ used_entries < cache_size) =>
                /\ insert(policy, St, k, v).ret
                /\ ~insert(policy, St, k, v).oob
                /\ insert(policy, St, k, v).s.evictions = evictions
                /\ insert(policy, St, k, v).s.used_entries = used_entries + 1
                /\ ResidentKeys(insert(policy, St, k, v).s) = ResidentKeys(St) \cup {k}

\* The slab with the reference / visited bits of CLOCK / SIEVE left out of
\* the comparison (all cleared).
BitsCleared(pol, es) ==
    CASE pol = "CLOCK" -> [i \in DOMAIN es |-> [es[i] EXCEPT !.reference_bit = FALSE]]
      [] pol = "SIEVE" -> [i \in DOMAIN es |-> [es[i] EXCEPT !.visited = FALSE]]
      [] OTHER -> es

\* C35: for every policy, when get_eviction_candidate returns none the policy
\* state is left as it was before the call, apart from the documented
\* clearing of reference/visited bits: list links, hand position, the LFU
\* bucket maps and min_count, and the ARC lists and p are unchanged.
C35_NoCandidateLeavesPolicyState ==
    (~crashed /\ get_eviction_candidate(policy, policy_data, entries).victim = Nil) =>
        /\ get_eviction_candidate(policy, policy_data, entries).m = policy_data
        /\ BitsCleared(policy, get_eviction_candidate(policy, policy_data, entries).entries)
               = BitsCleared(policy, entries)

\* C36: with ARC, ghost lists B1 and B2 never hold more than capacity keys
\* each after any sequence of inserts, evictions and invalidations (when a
\* ghost list is full its oldest key is dropped).
C36_ArcGhostListsCapped ==
    (policy = "ARC" /\ ~crashed) =>
        /\ Cardinality(policy_data.b1_ghost) <= cache_size
        /\ Cardinality(policy_data.b2_ghost) <= cache_size

\* C37: with ARC, in every reachable state 0 <= p <= capacity and
\* |T1| + |T2| = used_entries <= capacity.
C37_ArcSizesWithinCapacity ==
    (policy = "ARC" /\ ~crashed) =>
        /\ policy_data.p >= 0
        /\ policy_data.p <= cache_size
        /\ Len(Chain(entries, policy_data.t1_head, "next", Fuel))
             + Len(Chain(entries, policy_data.t2_head, "next", Fuel)) = used_entries
        /\ used_entries <= cache_size

\* C37, amended: under ARC 0 <= p <= capacity and |T1| + |T2| = used_entries
\* in every reachable state, and used_entries <= capacity as long as resize
\* has not lowered the capacity below the constructed one.
C37_ArcSizesWithinConstructedCapacity ==
    (policy = "ARC" /\ ~crashed) =>
        /\ policy_data.p >= 0
        /\ policy_data.p <= cache_size
        /\ Len(Chain(entries, policy_data.t1_head, "next", Fuel))
             + Len(Chain(entries, policy_data.t2_head, "next", Fuel)) = used_entries
        /\ (cache_size >= entries_size => used_entries <= cache_size)

\* A full ARC cache with entries on both T1 and T2 after an eviction left a ghost.
C37_Witness ==
    /\ policy = "ARC" /\ ~crashed
    /\ policy_data.t1_head # Nil /\ policy_data.t2_head # Nil
    /\ policy_data.b1_ghost \cup policy_data.b2_ghost # {}
    /\ used_entries = cache_size /\ cache_size = entries_size

\* C39: every public operation takes the non-recursive mutex_ once and
\* returns with it released: no thread is at a lock_guard on mutex_ while it
\* already owns mutex_, and an idle thread never owns it.
C39_NoCallLocksOwnMutex ==
    \A t \in Threads :
        /\ pc[t] = "get_hit_ratio" => mutex # t
        /\ pc[t] = "idle" => mutex # t

Idle(k) == Resident(St, k) /\ can_evict(entries[cache_map[k]])

\* C38: under every policy, if inserts of new keys keep taking effect, an
\* entry that is resident, unpinned and clean does not stay so for ever: it
\* is evicted (or pinned or marked dirty by the client) at some later point.
C38_IdleEntryEventuallyEvicted ==
    \A k \in RingKeys : ([]<><<InsertFresh>>_vars) => (Idle(k) ~> ~Idle(k))

================================================================================
